---- MODULE Spec2Model ----
(***************************************************************************)
(* libsavl: an intrusive AVL tree (savl.c, savl.h).                        *)
(*                                                                         *)
(* Every record embeds one savl_node per tree (README.md, struct employee: *)
(* name_node and number_node); heap[t] holds the node fields and the root  *)
(* pointer of tree t.  A pointer is a record index, NULL is 0.             *)
(***************************************************************************)
EXTENDS Integers, Sequences, FiniteSets, TLC

\* ------------------------------------------------------------------ bounds

\* Number of distinct key values carried by the records.
NumKeys == 7

\* Number of distinct-key records a program with a single tree works on when
\* it adds, removes and frees in any order.
MaxRec1 == 5

\* Number of records whose node may be put into the second tree.
MaxRec2 == 3

\* Number of distinct keys of the program that builds a deep tree before it
\* goes on adding and removing.
DeepKeys == 12

\* Number of calls that program makes once its tree is built.
MaxDeepOps == 2

\* One more record than keys: the last record repeats a key.
MaxRec == NumKeys + 1

\* ------------------------------------------------------------ constants

NULL == 0

SAVL_DBL_LEFT == -2
SAVL_LEFT == -1
SAVL_EVEN == 0
SAVL_RIGHT == 1
SAVL_DBL_RIGHT == 2

Rec == 1..MaxRec
Tree == {1, 2}
Ptr == Rec \cup {NULL}

\* The key a record carries (employee_number in README.md).
KeyOf(r) ==
    IF r <= NumKeys THEN r
    ELSE IF r = MaxRec THEN (MaxRec1 + 1) \div 2
    ELSE r - 1

\* cmp_numbers: (key > number) - (key < number)
cmpfn(key, node) ==
    (IF key > KeyOf(node) THEN 1 ELSE 0) - (IF key < KeyOf(node) THEN 1 ELSE 0)

\* --------------------------------------------------------------- the heap

\* struct savl_node for every record, the tree's root pointer, and whether an
\* assert() of savl.c failed while working on this tree.
EmptyHeap ==
    [root   |-> NULL,
     parent |-> [r \in Rec |-> NULL],
     left   |-> [r \in Rec |-> NULL],
     right  |-> [r \in Rec |-> NULL],
     skew   |-> [r \in Rec |-> SAVL_EVEN],
     failed |-> FALSE]

\* A store that is lost: the field keeps its old value.
SetIf_lost(f, p, v) == f

\* p->field = v, skipped when the code guards the store with p != NULL.
SetIf(f, p, v) == IF p = NULL THEN f ELSE [f EXCEPT ![p] = v]

\* assert(cond)
c_assert(h, cond) == IF cond THEN h ELSE [h EXCEPT !.failed = TRUE]

\* ------------------------------------------------------- savl_which_child

savl_which_child(h, node) ==
    IF h.parent[node] = NULL THEN SAVL_EVEN
    ELSE IF h.left[h.parent[node]] = node THEN SAVL_LEFT
    ELSE SAVL_RIGHT

\* The assert(node->parent->right == node) inside savl_which_child.
which_child_assert(h, node) ==
    \/ h.parent[node] = NULL
    \/ h.left[h.parent[node]] = node
    \/ h.right[h.parent[node]] = node

\* ------------------------------------------------------- relative depths

\* A relative depth of the left subtree that ignores the node's skew.
savl_rdepth_of_left_flat(h, node, node_rdepth) == node_rdepth - 1

savl_rdepth_of_left(h, node, node_rdepth) ==
    IF h.skew[node] <= SAVL_EVEN THEN node_rdepth - 1
    ELSE node_rdepth - 1 - h.skew[node]

savl_rdepth_of_right(h, node, node_rdepth) ==
    IF h.skew[node] >= SAVL_EVEN THEN node_rdepth - 1
    ELSE node_rdepth - 1 + h.skew[node]

\* A relative depth from the right subtree that ignores the node's skew.
savl_rdepth_from_right_flat(h, node, right_rdepth) == right_rdepth + 1

savl_rdepth_from_right(h, node, right_rdepth) ==
    IF h.skew[node] >= SAVL_EVEN THEN right_rdepth + 1
    ELSE right_rdepth - h.skew[node] + 1

\* A relative depth from the left subtree that ignores the node's skew.
savl_rdepth_from_left_flat(h, node, left_rdepth) == left_rdepth + 1

savl_rdepth_from_left(h, node, left_rdepth) ==
    IF h.skew[node] <= SAVL_EVEN THEN left_rdepth + 1
    ELSE left_rdepth + h.skew[node] + 1

\* ------------------------------------------------------------ promotions

\* Everything savl_promote_left does except the store *subtree = NR, which
\* the caller's slot receives: the result names NR in .subtree.
savl_promote_left(h, OR) ==
    LET NR == h.left[OR]
        M == h.right[NR]
        rdepth_M == 0
        rdepth_NR == savl_rdepth_from_right(h, NR, rdepth_M)
        rdepth_LM == savl_rdepth_of_left(h, NR, rdepth_NR)
        rdepth_OR == savl_rdepth_from_left(h, OR, rdepth_NR)
        rdepth_RM == savl_rdepth_of_right(h, OR, rdepth_OR)
        h1 == [h EXCEPT !.parent = SetIf([@ EXCEPT ![NR] = h.parent[OR],
                                                   ![OR] = NR], M, OR),
                        !.right[NR] = OR,
                        !.left[OR] = M]
        h2 == [h1 EXCEPT !.skew[OR] = rdepth_RM - rdepth_M]
        new_rdepth_OR == savl_rdepth_from_right(h2, OR, rdepth_RM)
        h3 == [h2 EXCEPT !.skew[NR] = new_rdepth_OR - rdepth_LM]
        new_rdepth_NR == savl_rdepth_from_left(h3, NR, rdepth_LM)
    IN  [h |-> h3, subtree |-> NR, growth |-> new_rdepth_NR - rdepth_OR]

savl_promote_right(h, OR) ==
    LET NR == h.right[OR]
        M == h.left[NR]
        rdepth_M == 0
        rdepth_NR == savl_rdepth_from_left(h, NR, rdepth_M)
        rdepth_RM == savl_rdepth_of_right(h, NR, rdepth_NR)
        rdepth_OR == savl_rdepth_from_right(h, OR, rdepth_NR)
        rdepth_LM == savl_rdepth_of_left(h, OR, rdepth_OR)
        h1 == [h EXCEPT !.parent = SetIf([@ EXCEPT ![NR] = h.parent[OR],
                                                   ![OR] = NR], M, OR),
                        !.left[NR] = OR,
                        !.right[OR] = M]
        h2 == [h1 EXCEPT !.skew[OR] = rdepth_M - rdepth_LM]
        new_rdepth_OR == savl_rdepth_from_left(h2, OR, rdepth_LM)
        h3 == [h2 EXCEPT !.skew[NR] = rdepth_RM - new_rdepth_OR]
        new_rdepth_NR == savl_rdepth_from_right(h3, NR, rdepth_RM)
    IN  [h |-> h3, subtree |-> NR, growth |-> new_rdepth_NR - rdepth_OR]

\* A store of the new subtree root that always goes to the tree root.
store_subtree_root(h, which_child, node) == [h EXCEPT !.root = node]

\* The switch (which_child) that stores the rotated subtree's new root in the
\* tree root or in its parent's child link.
store_subtree(h, which_child, node) ==
    IF which_child = SAVL_EVEN THEN [h EXCEPT !.root = node]
    ELSE IF which_child = SAVL_LEFT
         THEN [h EXCEPT !.left[h.parent[node]] = node]
         ELSE [h EXCEPT !.right[h.parent[node]] = node]

\* ------------------------------------------------------------ savl_search

RECURSIVE search_loop_leftward(_, _, _)

\* A descent that never follows a right link.
search_loop_leftward(h, node, key) ==
    LET cmp_result == cmpfn(key, node) IN
    IF cmp_result < 0 /\ h.left[node] # NULL
    THEN search_loop_leftward(h, h.left[node], key)
    ELSE [result |-> node, cmp_result |-> cmp_result]

RECURSIVE search_loop(_, _, _)
search_loop(h, node, key) ==
    LET cmp_result == cmpfn(key, node) IN
    IF cmp_result < 0 /\ h.left[node] # NULL
    THEN search_loop(h, h.left[node], key)
    ELSE IF cmp_result > 0 /\ h.right[node] # NULL
    THEN search_loop(h, h.right[node], key)
    ELSE [result |-> node, cmp_result |-> cmp_result]

\* A search that reports the attachment side with the opposite sign.
search_return_swapped(s) ==
    [result |-> s.result,
     which  |-> (IF s.cmp_result < 0 THEN 1 ELSE 0)
                - (IF s.cmp_result > 0 THEN 1 ELSE 0)]

\* *result = node; return (cmp_result > 0) - (cmp_result < 0);
search_return(s) ==
    [result |-> s.result,
     which  |-> (IF s.cmp_result > 0 THEN 1 ELSE 0)
                - (IF s.cmp_result < 0 THEN 1 ELSE 0)]

\* A search that compares with the first node only.
savl_search_shallow(h, node, key) ==
    search_return(IF node # NULL
                  THEN [result |-> node, cmp_result |-> cmpfn(key, node)]
                  ELSE [result |-> NULL, cmp_result |-> 0])

savl_search(h, node, key) ==
    search_return(IF node # NULL THEN search_loop(h, node, key)
                  ELSE [result |-> NULL, cmp_result |-> 0])

\* What savl_get makes of a search: the node found, or NULL.
search_get(s) == IF s.which = SAVL_EVEN THEN s.result ELSE NULL

\* ----------------------------------------------------------- savl_replace

\* A replacement that leaves the right child pointing at the old node.
savl_replace_half(h, new) ==
    LET old == h.parent[new]
        h1 == [h EXCEPT !.parent[new] = h.parent[old]]
        wc == savl_which_child(h1, old)
        h2 == c_assert(IF wc = SAVL_LEFT THEN [h1 EXCEPT !.left[h1.parent[new]] = new]
                     ELSE IF wc = SAVL_RIGHT THEN [h1 EXCEPT !.right[h1.parent[new]] = new]
                     ELSE [h1 EXCEPT !.root = new],
                     which_child_assert(h1, old))
        h3 == [h2 EXCEPT !.left[new] = h2.left[old]]
        h4 == [h3 EXCEPT !.parent = SetIf(@, h3.left[new], new)]
        h5 == [h4 EXCEPT !.right[new] = h4.right[old]]
        h7 == [h5 EXCEPT !.skew[new] = h5.skew[old]]
    IN  [h |-> h7, ret |-> old]

savl_replace(h, new) ==
    LET old == h.parent[new]
        h1 == [h EXCEPT !.parent[new] = h.parent[old]]
        wc == savl_which_child(h1, old)
        h2 == c_assert(IF wc = SAVL_LEFT THEN [h1 EXCEPT !.left[h1.parent[new]] = new]
                     ELSE IF wc = SAVL_RIGHT THEN [h1 EXCEPT !.right[h1.parent[new]] = new]
                     ELSE [h1 EXCEPT !.root = new],
                     which_child_assert(h1, old))
        h3 == [h2 EXCEPT !.left[new] = h2.left[old]]
        h4 == [h3 EXCEPT !.parent = SetIf(@, h3.left[new], new)]
        h5 == [h4 EXCEPT !.right[new] = h4.right[old]]
        h6 == [h5 EXCEPT !.parent = SetIf(@, h5.right[new], new)]
        h7 == [h6 EXCEPT !.skew[new] = h6.skew[old]]
    IN  [h |-> h7, ret |-> old]

\* ----------------------------------------------------- savl_add_rebalance

\* if (node->left->skew == SAVL_RIGHT) growth += savl_promote_right(&node->left);
add_inner_right(h, node, growth) ==
    IF h.skew[h.left[node]] = SAVL_RIGHT
    THEN LET p == savl_promote_right(h, h.left[node])
         IN  [h |-> [p.h EXCEPT !.left[node] = p.subtree],
              growth |-> growth + p.growth]
    ELSE [h |-> h, growth |-> growth]

\* if (node->right->skew == SAVL_LEFT) growth += savl_promote_left(&node->right);
add_inner_left(h, node, growth) ==
    IF h.skew[h.right[node]] = SAVL_LEFT
    THEN LET p == savl_promote_left(h, h.right[node])
         IN  [h |-> [p.h EXCEPT !.right[node] = p.subtree],
              growth |-> growth + p.growth]
    ELSE [h |-> h, growth |-> growth]

\* growth += savl_promote_left(&node);
add_outer_left(inner, node) ==
    LET p == savl_promote_left(inner.h, node)
    IN  [h |-> p.h, node |-> p.subtree, growth |-> inner.growth + p.growth]

\* growth += savl_promote_right(&node);
add_outer_right(inner, node) ==
    LET p == savl_promote_right(inner.h, node)
    IN  [h |-> p.h, node |-> p.subtree, growth |-> inner.growth + p.growth]

\* A rebalance that leaves a doubly skewed node as it is.
add_rotate_skipped(h, node, which_child, growth) == h

\* The doubly skewed node is rotated, the new subtree root stored, and
\* assert(growth == 0) checked.
add_rotate(h, node, which_child, growth) ==
    LET rot == IF h.skew[node] = SAVL_DBL_LEFT
               THEN add_outer_left(add_inner_right(h, node, growth), node)
               ELSE add_outer_right(add_inner_left(h, node, growth), node)
    IN  c_assert(store_subtree(rot.h, which_child, rot.node), rot.growth = 0)

RECURSIVE savl_add_rebalance(_, _, _)

\* The loop body after node->skew += which_child.
add_rebalance_body(h, node) ==
    IF h.skew[node] = SAVL_EVEN THEN h
    ELSE IF h.skew[node] = SAVL_LEFT \/ h.skew[node] = SAVL_RIGHT
    THEN savl_add_rebalance(c_assert(h, which_child_assert(h, node)),
                            h.parent[node], savl_which_child(h, node))
    ELSE add_rotate(c_assert(h, which_child_assert(h, node)), node,
                    savl_which_child(h, node), 1)

savl_add_rebalance(h, node, which_child) ==
    IF node = NULL THEN h
    ELSE add_rebalance_body([h EXCEPT !.skew[node] = @ + which_child], node)

\* --------------------------------------------------------------- savl_add

\* A new node that is hung on the left of its parent wherever it belongs.
add_linked_left(h, new, which_child) ==
    [c_assert(h, h.left[h.parent[new]] = NULL)
       EXCEPT !.left[h.parent[new]] = new]

\* Lines 619-627: the new node is hung on its parent.
add_linked(h, new, which_child) ==
    IF which_child = SAVL_LEFT
    THEN [c_assert(h, h.left[h.parent[new]] = NULL)
            EXCEPT !.left[h.parent[new]] = new]
    ELSE [c_assert(h, h.right[h.parent[new]] = NULL)
            EXCEPT !.right[h.parent[new]] = new]

\* An attachment that never stores the new node in its parent's child link.
add_attach_unlinked(h, new, which_child) ==
    [h |-> savl_add_rebalance(h, h.parent[new], which_child), ret |-> NULL]

\* Lines 619-632: the new node is hung on its parent and the tree rebalanced.
add_attach(h, new, which_child) ==
    [h |-> savl_add_rebalance(add_linked(h, new, which_child),
                              h.parent[new], which_child),
     ret |-> NULL]

\* An addition that says nothing of the equal key it has found.
add_found_silent(h, new, replace, which_child) ==
    IF which_child = SAVL_EVEN THEN [h |-> h, ret |-> NULL]
    ELSE add_attach(h, new, which_child)

\* An addition that clears the node it has put another in the place of, as
\* savl_remove_node clears the node it has taken out.
add_found_clearing(h, new, replace, which_child) ==
    IF which_child = SAVL_EVEN
    THEN IF replace
         THEN [h |-> [savl_replace(h, new).h EXCEPT
                         !.parent[h.parent[new]] = NULL,
                         !.left[h.parent[new]] = NULL,
                         !.right[h.parent[new]] = NULL,
                         !.skew[h.parent[new]] = SAVL_EVEN],
               ret |-> h.parent[new]]
         ELSE [h |-> h, ret |-> h.parent[new]]
    ELSE add_attach(h, new, which_child)

\* An addition that clears the parent of the node it refuses.
add_found_reset(h, new, replace, which_child) ==
    IF which_child = SAVL_EVEN
    THEN IF replace THEN savl_replace(h, new)
         ELSE [h |-> [h EXCEPT !.parent[new] = NULL], ret |-> h.parent[new]]
    ELSE add_attach(h, new, which_child)

\* Lines 612-632, with new->parent already set by savl_search.
add_found(h, new, replace, which_child) ==
    IF which_child = SAVL_EVEN
    THEN IF replace THEN savl_replace(h, new)
         ELSE [h |-> h, ret |-> h.parent[new]]
    ELSE add_attach(h, new, which_child)

\* which_child = savl_search(*tree, cmpfn, key, &new->parent);
add_search(h, new, replace, s) ==
    add_found([h EXCEPT !.parent[new] = s.result], new, replace, s.which)

\* Lines 598-632, with new's left, right and skew already cleared.
add_cleared(h, key, new, replace) ==
    IF h.root = NULL
    THEN [h |-> [h EXCEPT !.parent[new] = NULL, !.root = new], ret |-> NULL]
    ELSE add_search(h, new, replace, savl_search(h, h.root, key))

\* A savl_add that trusts the new node's left, right and skew.
savl_add_trusting(h, key, new, replace) == add_cleared(h, key, new, replace)

savl_add(h, key, new, replace) ==
    add_cleared([h EXCEPT !.left[new] = NULL, !.right[new] = NULL,
                          !.skew[new] = SAVL_EVEN],
                key, new, replace)

\* A savl_try_add that replaces the node it finds.
savl_try_add_replacing(h, key, new) == savl_add(h, key, new, TRUE)

savl_try_add(h, key, new) == savl_add(h, key, new, FALSE)

savl_force_add(h, key, new) == savl_add(h, key, new, TRUE)

\* ----------------------------------------------------- savl_del_rebalance

\* if (node->left->skew == SAVL_RIGHT) growth += savl_promote_right(&node->left);
del_inner_right(h, node, growth) ==
    IF h.skew[h.left[node]] = SAVL_RIGHT
    THEN LET p == savl_promote_right(h, h.left[node])
         IN  [h |-> [p.h EXCEPT !.left[node] = p.subtree],
              growth |-> growth + p.growth]
    ELSE [h |-> h, growth |-> growth]

\* if (node->right->skew == SAVL_LEFT) growth += savl_promote_left(&node->right);
del_inner_left(h, node, growth) ==
    IF h.skew[h.right[node]] = SAVL_LEFT
    THEN LET p == savl_promote_left(h, h.right[node])
         IN  [h |-> [p.h EXCEPT !.right[node] = p.subtree],
              growth |-> growth + p.growth]
    ELSE [h |-> h, growth |-> growth]

\* growth += savl_promote_left(&node);
del_outer_left(inner, node) ==
    LET p == savl_promote_left(inner.h, node)
    IN  [h |-> p.h, node |-> p.subtree, growth |-> inner.growth + p.growth]

\* growth += savl_promote_right(&node);
del_outer_right(inner, node) ==
    LET p == savl_promote_right(inner.h, node)
    IN  [h |-> p.h, node |-> p.subtree, growth |-> inner.growth + p.growth]

\* The doubly skewed node is rotated and the new subtree root stored.
del_rotate(h, node, which_child, growth) ==
    LET rot == IF h.skew[node] = SAVL_DBL_LEFT
               THEN del_outer_left(del_inner_right(h, node, growth), node)
               ELSE del_outer_right(del_inner_left(h, node, growth), node)
    IN  [h |-> store_subtree(rot.h, which_child, rot.node), node |-> rot.node,
         growth |-> rot.growth]

RECURSIVE savl_del_rebalance(_, _, _)

\* Lines 743-748: stop when the rotation kept the depth, go on otherwise.
del_rotated(rot, which_child) ==
    IF rot.growth = 0 THEN rot.h
    ELSE savl_del_rebalance(c_assert(rot.h, rot.growth = -1),
                            rot.h.parent[rot.node], which_child)

\* The loop body after node->skew -= which_child.
del_rebalance_body(h, node) ==
    IF h.skew[node] = SAVL_LEFT \/ h.skew[node] = SAVL_RIGHT THEN h
    ELSE IF h.skew[node] = SAVL_EVEN
    THEN savl_del_rebalance(c_assert(h, which_child_assert(h, node)),
                            h.parent[node], savl_which_child(h, node))
    ELSE del_rotated(del_rotate(c_assert(h, which_child_assert(h, node)), node,
                                savl_which_child(h, node), 0),
                     savl_which_child(h, node))

savl_del_rebalance(h, node, which_child) ==
    IF node = NULL THEN h
    ELSE del_rebalance_body([h EXCEPT !.skew[node] = @ - which_child], node)

\* -------------------------------------------------------- savl_del_simple

\* The switch at lines 777-784: repl is stored where node was.
del_simple_link(h, node, repl, which_child) ==
    IF which_child = SAVL_EVEN THEN [h EXCEPT !.root = repl]
    ELSE IF which_child = SAVL_LEFT
    THEN [h EXCEPT !.left[h.parent[node]] = repl]
    ELSE [h EXCEPT !.right[h.parent[node]] = repl]

\* A simple deletion that forgets to store the new root.
del_simple_unlink_rootless(h, node, repl, which_child) ==
    IF which_child = SAVL_EVEN THEN h
    ELSE savl_del_rebalance(
             IF which_child = SAVL_LEFT
             THEN [h EXCEPT !.left[h.parent[node]] = repl]
             ELSE [h EXCEPT !.right[h.parent[node]] = repl],
             h.parent[node], which_child)

\* Lines 775-786, with repl->parent already set.
del_simple_unlink(h, node, repl, which_child) ==
    IF which_child = SAVL_EVEN THEN del_simple_link(h, node, repl, which_child)
    ELSE savl_del_rebalance(del_simple_link(h, node, repl, which_child),
                            h.parent[node], which_child)

\* Lines 772-786.
del_simple_repl(h, node, repl) ==
    del_simple_unlink(
        c_assert([h EXCEPT !.parent = SetIf(@, repl, h.parent[node])],
                 which_child_assert(h, node)),
        node, repl, savl_which_child(h, node))

\* A simple deletion that always puts the left child in the node's place.
savl_del_simple_left(h, node) == del_simple_repl(h, node, h.left[node])

savl_del_simple(h, node) ==
    del_simple_repl(h, node,
                    IF h.left[node] # NULL THEN h.left[node] ELSE h.right[node])

\* ------------------------------------------- savl_left_repl, savl_right_repl

RECURSIVE rightmost(_, _)
rightmost(h, node) ==
    IF h.right[node] # NULL THEN rightmost(h, h.right[node]) ELSE node

RECURSIVE leftmost(_, _)
leftmost(h, node) ==
    IF h.left[node] # NULL THEN leftmost(h, h.left[node]) ELSE node

\* A predecessor that is not taken out of its old position when it is the
\* immediate left child.
left_repl_take_kept(h, repl, which_child) ==
    LET h1 == IF which_child = SAVL_LEFT
              THEN [h EXCEPT !.parent = [SetIf(@, h.left[repl], h.parent[repl])
                                           EXCEPT ![repl] = repl]]
              ELSE [h EXCEPT !.right[h.parent[repl]] = h.left[repl],
                             !.parent = SetIf(@, h.left[repl], h.parent[repl])]
    IN  [h |-> [h1 EXCEPT !.skew[repl] = which_child], repl |-> repl]

\* Lines 826-847 for the replacement the for loop found.
left_repl_take(h, repl, which_child) ==
    LET h1 == IF which_child = SAVL_LEFT
              THEN [h EXCEPT !.left[h.parent[repl]] = h.left[repl],
                             !.parent = [SetIf(@, h.left[repl], h.parent[repl])
                                           EXCEPT ![repl] = repl]]
              ELSE [h EXCEPT !.right[h.parent[repl]] = h.left[repl],
                             !.parent = SetIf(@, h.left[repl], h.parent[repl])]
    IN  [h |-> [h1 EXCEPT !.skew[repl] = which_child], repl |-> repl]

left_repl_found(h, repl) ==
    left_repl_take(c_assert(h, which_child_assert(h, repl)), repl,
                   savl_which_child(h, repl))

\* A replacement search that stops at the node's own left child.
savl_left_repl_near(h, node) == left_repl_found(h, h.left[node])

savl_left_repl(h, node) == left_repl_found(h, rightmost(h, h.left[node]))

\* Lines 886-907 for the replacement the for loop found.
right_repl_take(h, repl, which_child) ==
    LET h1 == IF which_child = SAVL_RIGHT
              THEN [h EXCEPT !.right[h.parent[repl]] = h.right[repl],
                             !.parent = [SetIf(@, h.right[repl], h.parent[repl])
                                           EXCEPT ![repl] = repl]]
              ELSE [h EXCEPT !.left[h.parent[repl]] = h.right[repl],
                             !.parent = SetIf(@, h.right[repl], h.parent[repl])]
    IN  [h |-> [h1 EXCEPT !.skew[repl] = which_child], repl |-> repl]

right_repl_found(h, repl) ==
    right_repl_take(c_assert(h, which_child_assert(h, repl)), repl,
                    savl_which_child(h, repl))

savl_right_repl(h, node) == right_repl_found(h, leftmost(h, h.right[node]))

\* ------------------------------------------------------- savl_del_complex

\* A tie-break that never flips the flag.
which_subtree_of_stuck(skew, wr) ==
    IF skew = SAVL_EVEN
    THEN [which_repl |-> wr,
          which_subtree |-> IF ~wr THEN SAVL_LEFT ELSE SAVL_RIGHT]
    ELSE [which_repl |-> wr, which_subtree |-> skew]

\* "Get replacement from deeper subtree (if any) or just alternate": the
\* static _Bool which_repl is passed in as wr and handed back.
which_subtree_of(skew, wr) ==
    IF skew = SAVL_EVEN
    THEN [which_repl |-> ~wr,
          which_subtree |-> IF ~wr THEN SAVL_LEFT ELSE SAVL_RIGHT]
    ELSE [which_repl |-> wr, which_subtree |-> skew]

\* Lines 942-961: repl takes node's place.
del_complex_splice(h, node, repl) ==
    LET wc == savl_which_child(h, node)
        h1 == c_assert(IF wc = SAVL_EVEN THEN [h EXCEPT !.root = repl]
                       ELSE IF wc = SAVL_LEFT
                       THEN [h EXCEPT !.left[h.parent[node]] = repl]
                       ELSE [h EXCEPT !.right[h.parent[node]] = repl],
                       which_child_assert(h, node))
        h2 == [h1 EXCEPT !.parent[repl] = h1.parent[node],
                         !.left[repl] = h1.left[node]]
        h3 == [h2 EXCEPT !.parent = SetIf(@, h2.left[repl], repl),
                         !.right[repl] = h2.right[node]]
        h4 == [h3 EXCEPT !.parent = SetIf(@, h3.right[repl], repl)]
    IN  [h4 EXCEPT !.skew[repl] = h4.skew[node]]

\* Lines 939-963 for the replacement r = [h, repl] taken out of its place;
\* .side is which_subtree, .tie whether the deleted node's skew was even.
del_complex_repl(node, pick, tie, r) ==
    [h |-> savl_del_rebalance(del_complex_splice(r.h, node, r.repl),
                              r.h.parent[r.repl], r.h.skew[r.repl]),
     which_repl |-> pick.which_repl, side |-> pick.which_subtree, tie |-> tie]

del_complex_pick(h, node, pick) ==
    del_complex_repl(node, pick, h.skew[node] = SAVL_EVEN,
                     IF pick.which_subtree = SAVL_LEFT
                     THEN savl_left_repl(h, node)
                     ELSE savl_right_repl(h, node))

savl_del_complex(h, node, wr) ==
    del_complex_pick(h, node, which_subtree_of(h.skew[node], wr))

\* ------------------------------------------------------- savl_remove_node

\* A removal that hands the node back with its links as they were.
remove_node_clear_skipped(d, node) ==
    [h |-> d.h, which_repl |-> d.which_repl, side |-> d.side, tie |-> d.tie]

\* Lines 983-986.
remove_node_clear(d, node) ==
    [h |-> [d.h EXCEPT !.parent[node] = NULL, !.left[node] = NULL,
                       !.right[node] = NULL, !.skew[node] = SAVL_EVEN],
     which_repl |-> d.which_repl, side |-> d.side, tie |-> d.tie]

savl_remove_node(h, node, wr) ==
    remove_node_clear(
        IF h.left[node] = NULL \/ h.right[node] = NULL
        THEN [h |-> savl_del_simple(h, node), which_repl |-> wr,
              side |-> SAVL_EVEN, tie |-> FALSE]
        ELSE savl_del_complex(h, node, wr),
        node)

\* ------------------------------------------------------------ savl_remove

remove_removed(d, node) ==
    [h |-> d.h, which_repl |-> d.which_repl, side |-> d.side, tie |-> d.tie,
     ret |-> node]

\* A removal that takes out the node the search stopped at, equal key or not.
remove_found_nearest(h, wr, s) ==
    IF s.result = NULL
    THEN [h |-> h, which_repl |-> wr, side |-> SAVL_EVEN, tie |-> FALSE,
          ret |-> NULL]
    ELSE remove_removed(savl_remove_node(h, s.result, wr), s.result)

remove_found(h, wr, s) ==
    IF s.which # SAVL_EVEN \/ s.result = NULL
    THEN [h |-> h, which_repl |-> wr, side |-> SAVL_EVEN, tie |-> FALSE,
          ret |-> NULL]
    ELSE remove_removed(savl_remove_node(h, s.result, wr), s.result)

savl_remove(h, key, wr) == remove_found(h, wr, savl_search(h, h.root, key))

\* ------------------------------------------------------------- iteration

savl_first(h, node) == leftmost(h, node)

savl_last(h, node) == rightmost(h, node)

\* An ascent that stops where it starts.
ascend_while_stuck(h, node, side) == node

RECURSIVE ascend_while(_, _, _)
ascend_while(h, node, side) ==
    IF savl_which_child(h, node) = side
    THEN ascend_while(h, h.parent[node], side) ELSE node

savl_next(h, node) ==
    IF h.right[node] # NULL THEN leftmost(h, h.right[node])
    ELSE h.parent[ascend_while(h, node, SAVL_RIGHT)]

\* A savl_prev that descends as savl_next does, to the leftmost node.
savl_prev_mirrored(h, node) ==
    IF h.left[node] # NULL THEN leftmost(h, h.left[node])
    ELSE h.parent[ascend_while(h, node, SAVL_LEFT)]

savl_prev(h, node) ==
    IF h.left[node] # NULL THEN rightmost(h, h.left[node])
    ELSE h.parent[ascend_while(h, node, SAVL_LEFT)]

\* -------------------------------------------------------------- savl_free

\* freefn as free_by_name: the record's storage is released; the caller's
\* next use of the record is a fresh calloc (all fields zero).
freefn(h, node) ==
    [h EXCEPT !.parent[node] = NULL, !.left[node] = NULL,
              !.right[node] = NULL, !.skew[node] = SAVL_EVEN]

RECURSIVE free_loop(_, _, _)

\* A node handed to freefn while its parent, or the root, still refers
\* to it.
free_unlink_kept(h, node, which_child) == freefn(h, node)

\* Lines 1116-1126: the childless node is unlinked and handed to freefn.
free_unlink(h, node, which_child) ==
    freefn(c_assert(IF which_child = SAVL_LEFT
                    THEN [h EXCEPT !.left[h.parent[node]] = NULL]
                    ELSE IF which_child = SAVL_RIGHT
                    THEN [h EXCEPT !.right[h.parent[node]] = NULL]
                    ELSE [h EXCEPT !.root = NULL],
                    which_child_assert(h, node)),
           node)

\* Lines 1116-1127: the loop goes on from the parent read before freefn.
free_leaf(h, node, calls, which_child) ==
    free_loop(free_unlink(h, node, which_child),
              h.parent[node], Append(calls, node))

\* A loop that hands a node over as soon as it has no left child.
free_loop_noright(h, node, calls) ==
    IF node = NULL THEN [h |-> h, calls |-> calls]
    ELSE IF h.left[node] # NULL THEN free_loop(h, h.left[node], calls)
    ELSE free_leaf(h, node, calls, savl_which_child(h, node))

\* The while loop of savl_free from the node it starts at; calls is the
\* sequence of nodes handed to freefn so far.
free_loop(h, node, calls) ==
    IF node = NULL THEN [h |-> h, calls |-> calls]
    ELSE IF h.left[node] # NULL THEN free_loop(h, h.left[node], calls)
    ELSE IF h.right[node] # NULL THEN free_loop(h, h.right[node], calls)
    ELSE free_leaf(h, node, calls, savl_which_child(h, node))

\* savl_free on a tree whose root is not NULL.
savl_free(h) == free_loop(h, savl_first(h, h.root), <<>>)

\* ------------------------------------------------------------------ state

VARIABLES
    heap,        \* heap[t]: root pointer and node fields of tree t
    which_repl,  \* static _Bool which_repl of savl_del_complex
    crashed,     \* the process died dereferencing a NULL pointer
    last,        \* the last public call: what it was given and what it returned
    ties,        \* ties[t]: parity of the depth-tie complex deletions on tree t
    tieSide,     \* tieSide[t]: the side the last of them took its replacement from
    trees,       \* the trees the program keeps (one, or one per embedded node)
    scenario,    \* fill-then-drain runs: the phase, the nodes added, those removed
    frame        \* the call in progress when a program is followed statement by
                 \* statement: where it is and its local variables

vars == <<heap, which_repl, crashed, last, ties, tieSide, trees, scenario,
         frame>>

\* The records the program puts into tree t: one record per key when it
\* fills and drains a tree; otherwise MaxRec1 records of distinct keys and the
\* one that repeats a key when it keeps a single tree, the first MaxRec2 when
\* it keeps two.
Pool(t) ==
    IF scenario.phase # "run" THEN 1..NumKeys
    ELSE IF trees = {1} THEN (1..MaxRec1) \cup {MaxRec}
    ELSE 1..MaxRec2

\* The nodes reachable from the root through left and right links.
RECURSIVE ReachFrom(_, _, _)
ReachFrom(h, frontier, seen) ==
    IF frontier = {} THEN seen
    ELSE LET all == seen \cup frontier
             nxt == ({h.left[n] : n \in frontier} \cup {h.right[n] : n \in frontier})
                    \ (all \cup {NULL})
         IN  ReachFrom(h, nxt, all)

Attached(h) == ReachFrom(h, {h.root} \ {NULL}, {})

NoCall ==
    [op |-> "init", tree |-> 0, node |-> NULL, key |-> 0, replace |-> FALSE,
     ret |-> NULL, side |-> SAVL_EVEN, tie |-> FALSE, calls |-> <<>>,
     empty |-> FALSE, dirty |-> FALSE]

\* Node n of h holds something in a field: it was displaced by savl_force_add
\* or refused by savl_try_add, or it comes from use in another tree.
Dirty(h, n) ==
    \/ h.parent[n] # NULL
    \/ h.left[n] # NULL
    \/ h.right[n] # NULL
    \/ h.skew[n] # SAVL_EVEN

\* No call is in progress.
NoFrame ==
    [pc |-> "idle", op |-> "none", node |-> NULL, which_child |-> SAVL_EVEN,
     growth |-> 0, target |-> NULL, promos |-> 0, rots |-> 0, depth0 |-> 0,
     ops |-> 0]

NoScenario == [phase |-> "run", batch |-> {}, removed |-> {}]

Init ==
    /\ heap = [t \in Tree |-> EmptyHeap]
    /\ which_repl = FALSE
    /\ crashed = FALSE
    /\ last = NoCall
    /\ ties = [t \in Tree |-> 0]
    /\ tieSide = [t \in Tree |-> SAVL_EVEN]
    /\ trees = {1}
    /\ scenario = NoScenario
    /\ frame = NoFrame

\* A program with two trees over the same records.
InitTwo ==
    /\ heap = [t \in Tree |-> EmptyHeap]
    /\ which_repl = FALSE
    /\ crashed = FALSE
    /\ last = NoCall
    /\ ties = [t \in Tree |-> 0]
    /\ tieSide = [t \in Tree |-> SAVL_EVEN]
    /\ trees = Tree
    /\ scenario = NoScenario
    /\ frame = NoFrame

\* The process is still running: no SIGSEGV and no failed assert().
Alive == ~crashed /\ \A t \in Tree : ~heap[t].failed

\* A call of savl_add, savl_try_add or savl_force_add with the key of new's
\* record, on a node that is in no tree; a is what the function computes.
AddCall(t, new, replace, a) ==
    /\ Alive
    /\ new \in Pool(t)
    /\ new \notin Attached(heap[t])
    /\ heap' = [heap EXCEPT ![t] = a.h]
    /\ last' = [NoCall EXCEPT !.op = "add", !.tree = t, !.node = new,
                              !.key = KeyOf(new), !.replace = replace,
                              !.ret = a.ret, !.dirty = Dirty(heap[t], new)]
    /\ UNCHANGED <<which_repl, crashed, ties, tieSide, trees, frame>>

Add ==
    /\ \E t \in trees, new \in Rec, replace \in BOOLEAN :
           AddCall(t, new, replace, savl_add(heap[t], KeyOf(new), new, replace))
    /\ UNCHANGED scenario

TryAdd ==
    /\ \E t \in trees, new \in Rec :
           AddCall(t, new, FALSE, savl_try_add(heap[t], KeyOf(new), new))
    /\ UNCHANGED scenario

ForceAdd ==
    /\ \E t \in trees, new \in Rec :
           AddCall(t, new, TRUE, savl_force_add(heap[t], KeyOf(new), new))
    /\ UNCHANGED scenario

\* What a removal leaves in the variables outside the heap.
Removed(t, d, op, node, key, ret) ==
    /\ heap' = [heap EXCEPT ![t] = d.h]
    /\ which_repl' = d.which_repl
    /\ ties' = IF d.tie THEN [ties EXCEPT ![t] = 1 - @] ELSE ties
    /\ tieSide' = IF d.tie THEN [tieSide EXCEPT ![t] = d.side] ELSE tieSide
    /\ last' = [NoCall EXCEPT !.op = op, !.tree = t, !.node = node, !.key = key,
                              !.ret = ret, !.side = d.side, !.tie = d.tie]
    /\ UNCHANGED <<crashed, trees, frame>>

\* savl_remove(&tree, cmpfn, key)
RemoveCall(t, key) ==
    /\ Alive
    /\ LET d == savl_remove(heap[t], key, which_repl)
       IN  Removed(t, d, "remove", NULL, key, d.ret)

\* savl_remove_node(node, &tree) on a node of the tree.
RemoveNodeCall(t, node) ==
    /\ Alive
    /\ node \in Attached(heap[t])
    /\ LET d == savl_remove_node(heap[t], node, which_repl)
       IN  Removed(t, d, "remove_node", node, KeyOf(node), NULL)

Remove ==
    /\ \E t \in trees :
           \E key \in {KeyOf(r) : r \in Pool(t)} : RemoveCall(t, key)
    /\ UNCHANGED scenario

RemoveNode ==
    /\ \E t \in trees, node \in Rec : RemoveNodeCall(t, node)
    /\ UNCHANGED scenario

\* savl_free(&tree, freefn) on a tree with nodes.
Free ==
    \E t \in trees :
        /\ Alive
        /\ heap[t].root # NULL
        /\ LET f == savl_free(heap[t]) IN
           /\ heap' = [heap EXCEPT ![t] = f.h]
           /\ last' = [NoCall EXCEPT !.op = "free", !.tree = t, !.calls = f.calls]
        /\ UNCHANGED <<which_repl, crashed, ties, tieSide, trees, frame, scenario>>

\* savl_free(&tree, freefn) on an empty tree: savl_first(*tree) reads
\* node->left through the NULL pointer.  The read is undefined: it faults
\* (the process dies), or it yields NULL and savl_free goes on with
\* node == NULL, skipping its loop.
FreeEmpty ==
    \E t \in trees, fault \in BOOLEAN :
        /\ Alive
        /\ heap[t].root = NULL
        /\ crashed' = fault
        /\ last' = [NoCall EXCEPT !.op = "free", !.tree = t, !.empty = TRUE]
        /\ UNCHANGED <<heap, which_repl, ties, tieSide, trees, frame, scenario>>

Next ==
    \/ Add
    \/ TryAdd
    \/ ForceAdd
    \/ Remove
    \/ RemoveNode
    \/ Free
    \/ FreeEmpty

Spec == Init /\ [][Next]_vars

\* ------------------------------------------------- fill, then drain

\* The attached node of tree h whose key is key, NULL when there is none
\* (found by looking at every attached node, not by savl_search).
NodeWithKey(h, key) ==
    IF \E n \in Attached(h) : KeyOf(n) = key
    THEN CHOOSE n \in Attached(h) : KeyOf(n) = key
    ELSE NULL

InitFill ==
    /\ heap = [t \in Tree |-> EmptyHeap]
    /\ which_repl \in BOOLEAN
    /\ crashed = FALSE
    /\ last = NoCall
    /\ ties = [t \in Tree |-> 0]
    /\ tieSide = [t \in Tree |-> SAVL_EVEN]
    /\ trees = {1}
    /\ scenario = [phase |-> "fill", batch |-> {}, removed |-> {}]
    /\ frame = NoFrame

\* Add a node whose key the tree does not hold yet.
FillAdd ==
    /\ scenario.phase = "fill"
    /\ \E new \in 1..NumKeys, replace \in BOOLEAN :
           /\ NodeWithKey(heap[1], KeyOf(new)) = NULL
           /\ AddCall(1, new, replace,
                      savl_add(heap[1], KeyOf(new), new, replace))
           /\ scenario' = [scenario EXCEPT !.batch = @ \cup {new}]

StartDrain ==
    /\ scenario.phase = "fill"
    /\ scenario.batch # {}
    /\ scenario' = [scenario EXCEPT !.phase = "drain"]
    /\ UNCHANGED <<heap, which_repl, crashed, last, ties, tieSide, trees, frame>>

DrainRemove ==
    /\ scenario.phase = "drain"
    /\ \E n \in scenario.batch \ scenario.removed :
           /\ RemoveCall(1, KeyOf(n))
           /\ scenario' = [scenario EXCEPT !.removed = @ \cup {n}]

DrainRemoveNode ==
    /\ scenario.phase = "drain"
    /\ \E n \in scenario.batch \ scenario.removed :
           /\ RemoveNodeCall(1, n)
           /\ scenario' = [scenario EXCEPT !.removed = @ \cup {n}]

NextFill ==
    \/ FillAdd
    \/ StartDrain
    \/ DrainRemove
    \/ DrainRemoveNode

SpecFill == InitFill /\ [][NextFill]_vars

SpecTwo == InitTwo /\ [][Next]_vars

\* ------------------------------------------------- the shape of a tree

Max(a, b) == IF a > b THEN a ELSE b

\* The nodes of the subtree whose root is n (none when n is NULL).
SubtreeOf(h, n) == ReachFrom(h, {n} \ {NULL}, {})

\* Depth of the subtree at n from the links alone: 0 for an absent subtree,
\* 1 for a leaf.  fuel bounds the descent.
RECURSIVE DepthOf(_, _, _)
DepthOf(h, n, fuel) ==
    IF n = NULL \/ fuel = 0 THEN 0
    ELSE 1 + Max(DepthOf(h, h.left[n], fuel - 1), DepthOf(h, h.right[n], fuel - 1))

Depth(h, n) == DepthOf(h, n, MaxRec + 1)

\* The in-order sequence of the subtree at n.
RECURSIVE InOrderOf(_, _, _)
InOrderOf(h, n, fuel) ==
    IF n = NULL \/ fuel = 0 THEN <<>>
    ELSE InOrderOf(h, h.left[n], fuel - 1) \o <<n>>
         \o InOrderOf(h, h.right[n], fuel - 1)

InOrder(h) == InOrderOf(h, h.root, MaxRec + 1)

StrictlyIncreasing(seq) ==
    \A i \in 1..(Len(seq) - 1) : KeyOf(seq[i]) < KeyOf(seq[i + 1])

\* All four fields of node n are clear.
Cleared(h, n) ==
    /\ h.parent[n] = NULL
    /\ h.left[n] = NULL
    /\ h.right[n] = NULL
    /\ h.skew[n] = SAVL_EVEN

\* No attached node and no root pointer refers to node x.
Unreferenced(h, x) ==
    /\ h.root # x
    /\ \A n \in Attached(h) \ {x} :
           h.parent[n] # x /\ h.left[n] # x /\ h.right[n] # x

IsRemoval == last.op \in {"remove", "remove_node"}

\* The node the last removal took out of the tree, NULL when it took none.
RemovedNode == IF last.op = "remove" THEN last.ret
               ELSE IF last.op = "remove_node" THEN last.node ELSE NULL

\* ---------------------------------------------------------------- claims

\* C1: after every add, tryAdd, forceAdd, remove and removeNode the tree is
\* a binary search tree: below every attached node all keys of the left
\* subtree are smaller and all keys of the right subtree larger than its own,
\* and the in-order traversal is strictly increasing.
C1_SearchTree ==
    \A t \in trees :
        /\ \A n \in Attached(heap[t]) :
               /\ \A m \in SubtreeOf(heap[t], heap[t].left[n]) : KeyOf(m) < KeyOf(n)
               /\ \A m \in SubtreeOf(heap[t], heap[t].right[n]) : KeyOf(m) > KeyOf(n)
        /\ StrictlyIncreasing(InOrder(heap[t]))
        /\ Len(InOrder(heap[t])) = Cardinality(Attached(heap[t]))

\* A two-child node was just removed from a tree that still has depth 3.
C1_Witness ==
    /\ IsRemoval
    /\ last.side # SAVL_EVEN
    /\ Depth(heap[1], heap[1].root) = 3

\* C2: after every public mutation every attached node's stored skew is
\* -1, 0 or 1 and equals depth(right subtree) - depth(left subtree), the
\* depths taken from the links.
C2_Balanced ==
    \A t \in trees : \A n \in Attached(heap[t]) :
        /\ heap[t].skew[n] \in {SAVL_LEFT, SAVL_EVEN, SAVL_RIGHT}
        /\ heap[t].skew[n] = Depth(heap[t], heap[t].right[n])
                             - Depth(heap[t], heap[t].left[n])

\* A removal left a tree of at least four nodes with a skewed root.
C2_Witness ==
    /\ IsRemoval
    /\ RemovedNode # NULL
    /\ Cardinality(Attached(heap[1])) >= 4
    /\ heap[1].skew[heap[1].root] # SAVL_EVEN

\* C3: after every public mutation every attached node other than the root
\* is the left or the right child of its parent, every child's parent is the
\* node it hangs on, and the root's parent is NULL.
C3_ParentConsistent ==
    \A t \in trees : \A n \in Attached(heap[t]) :
        /\ n = heap[t].root => heap[t].parent[n] = NULL
        /\ n # heap[t].root =>
               /\ heap[t].parent[n] # NULL
               /\ \/ heap[t].left[heap[t].parent[n]] = n
                  \/ heap[t].right[heap[t].parent[n]] = n
        /\ heap[t].left[n] # NULL => heap[t].parent[heap[t].left[n]] = n
        /\ heap[t].right[n] # NULL => heap[t].parent[heap[t].right[n]] = n

\* forceAdd just replaced a node that has a parent and a child.
C3_Witness ==
    /\ last.op = "add" /\ last.replace /\ last.ret # NULL
    /\ heap[1].parent[last.node] # NULL
    /\ heap[1].left[last.node] # NULL

\* The (parent, side) links that lead to node n.
LinksTo(h, n) ==
    {<<p, SAVL_LEFT>> : p \in {q \in Attached(h) : h.left[q] = n}}
    \cup {<<p, SAVL_RIGHT>> : p \in {q \in Attached(h) : h.right[q] = n}}

\* C4: between public operations the links from the root form a tree: the
\* root is nobody's child, every other attached node is the child of exactly
\* one node on exactly one side, and no node is among its own descendants.
C4_Acyclic ==
    \A t \in trees : \A n \in Attached(heap[t]) :
        /\ Cardinality(LinksTo(heap[t], n)) = IF n = heap[t].root THEN 0 ELSE 1
        /\ n \notin ReachFrom(heap[t],
                              {heap[t].left[n], heap[t].right[n]} \ {NULL}, {})

\* A two-child node was just replaced by its own left child.
C4_Witness ==
    /\ last.op = "remove_node"
    /\ last.side = SAVL_LEFT
    /\ \E n \in Attached(heap[1]) :
           /\ KeyOf(n) < last.key
           /\ heap[1].right[n] # NULL
           /\ \A m \in Attached(heap[1]) : KeyOf(m) < last.key => KeyOf(m) <= KeyOf(n)
           /\ heap[1].left[n] = NULL

\* C5: savl_free on an empty tree is a no-op: it completes normally, never
\* calls freefn and leaves the root NULL.
C5_FreeEmptyNoOp ==
    (last.op = "free" /\ last.empty) =>
        /\ ~crashed
        /\ last.calls = <<>>
        /\ heap[last.tree].root = NULL

\* C6: the tie-break is per-tree state: the side a depth-tie deletion on a
\* tree takes depends only on how many depth-tie deletions that tree has
\* seen (the first takes the left, and they alternate), whatever was deleted
\* from the other tree.
C6_PerTreeTieBreak ==
    last.tie =>
        last.side = IF ties[last.tree] = 1 THEN SAVL_LEFT ELSE SAVL_RIGHT

C8_RemovedDetached ==
    (IsRemoval /\ RemovedNode # NULL) =>
        /\ Cleared(heap[last.tree], RemovedNode)
        /\ Unreferenced(heap[last.tree], RemovedNode)
        /\ RemovedNode \notin Attached(heap[last.tree])

\* removeNode took out a node with two children (the complex path).
C8_Witness ==
    /\ last.op = "remove_node"
    /\ last.side = SAVL_RIGHT
    /\ Cardinality(Attached(heap[1])) >= 3

\* C9: adding n nodes with distinct keys to an empty tree and removing all
\* of them in any order leaves the root NULL and every one of the n nodes
\* with parent, left and right NULL and skew 0.
C9_DrainedEmpty ==
    (scenario.phase = "drain" /\ scenario.removed = scenario.batch) =>
        /\ heap[1].root = NULL
        /\ \A n \in scenario.batch : Cleared(heap[1], n)

\* A node for every key was added and all of them are removed again.
C9_Witness ==
    /\ scenario.phase = "drain"
    /\ scenario.removed = scenario.batch
    /\ Cardinality(scenario.batch) = NumKeys

\* C10: tryAdd with a key the tree holds returns the node holding it and
\* leaves the tree as it was: the same root, the same parent, left, right and
\* skew in every attached node, and the new node not reachable.
C10_TryAddKeeps ==
    [][(last'.op = "add" /\ ~last'.replace /\ last'.ret # NULL) =>
           /\ last'.ret = NodeWithKey(heap[last'.tree], last'.key)
           /\ heap'[last'.tree].root = heap[last'.tree].root
           /\ Attached(heap'[last'.tree]) = Attached(heap[last'.tree])
           /\ last'.node \notin Attached(heap'[last'.tree])
           /\ \A n \in Attached(heap[last'.tree]) :
                  /\ heap'[last'.tree].parent[n] = heap[last'.tree].parent[n]
                  /\ heap'[last'.tree].left[n] = heap[last'.tree].left[n]
                  /\ heap'[last'.tree].right[n] = heap[last'.tree].right[n]
                  /\ heap'[last'.tree].skew[n] = heap[last'.tree].skew[n]]_vars

\* tryAdd was refused on a tree of at least three nodes.
C10_Witness ==
    /\ last.op = "add" /\ ~last.replace /\ last.ret # NULL
    /\ Cardinality(Attached(heap[1])) >= 3

\* x with every reference to old turned into a reference to new.
Subst(x, old, new) == IF x = old THEN new ELSE x

ReplaceIn(seq, old, new) == [i \in 1..Len(seq) |-> Subst(seq[i], old, new)]

\* Node n has the same four fields in h and in g.
SameNode(h, g, n) ==
    /\ g.parent[n] = h.parent[n]
    /\ g.left[n] = h.left[n]
    /\ g.right[n] = h.right[n]
    /\ g.skew[n] = h.skew[n]

\* g is h with new spliced into the slot of the attached node old.
Spliced(h, g, old, new) ==
    /\ old \in Attached(h)
    /\ g.parent[new] = h.parent[old]
    /\ g.left[new] = h.left[old]
    /\ g.right[new] = h.right[old]
    /\ g.skew[new] = h.skew[old]
    /\ g.root = Subst(h.root, old, new)
    /\ \A n \in Attached(h) \ {old} :
           /\ g.parent[n] = Subst(h.parent[n], old, new)
           /\ g.left[n] = Subst(h.left[n], old, new)
           /\ g.right[n] = Subst(h.right[n], old, new)
           /\ g.skew[n] = h.skew[n]
    /\ \A n \in (Rec \ Attached(h)) \ {new} : SameNode(h, g, n)
    /\ SameNode(h, g, old)
    /\ InOrder(g) = ReplaceIn(InOrder(h), old, new)

\* C11: forceAdd with the key of an attached node returns that node and
\* splices the new node into its slot: the new node takes over its parent,
\* left, right and skew, its children and its parent's link (or the root
\* pointer) refer to the new node, nothing else changes, and the in-order
\* sequence is the old one with the new node in the displaced node's place.
C11_ForceAddSplices ==
    [][(last'.op = "add" /\ last'.replace
        /\ NodeWithKey(heap[last'.tree], last'.key) # NULL) =>
           /\ last'.ret = NodeWithKey(heap[last'.tree], last'.key)
           /\ Spliced(heap[last'.tree], heap'[last'.tree], last'.ret, last'.node)]_vars

\* forceAdd just displaced a root that has two children.
C11_Witness ==
    /\ last.op = "add" /\ last.replace /\ last.ret # NULL
    /\ heap[1].root = last.node
    /\ heap[1].left[last.node] # NULL
    /\ heap[1].right[last.node] # NULL

\* C12: add, tryAdd or forceAdd with a key the tree does not hold returns
\* NULL and attaches the new node: afterwards the tree holds exactly the
\* nodes it held before plus the new one; on an empty tree the new node
\* becomes the root and its parent is NULL.
C12_AddAttaches ==
    [][(last'.op = "add" /\ NodeWithKey(heap[last'.tree], last'.key) = NULL) =>
           /\ last'.ret = NULL
           /\ Attached(heap'[last'.tree])
                  = Attached(heap[last'.tree]) \cup {last'.node}
           /\ heap[last'.tree].root = NULL =>
                  /\ heap'[last'.tree].root = last'.node
                  /\ heap'[last'.tree].parent[last'.node] = NULL]_vars

\* The node just added ended up above two children (a double promotion).
C12_Witness ==
    /\ last.op = "add" /\ last.ret = NULL
    /\ heap[1].left[last.node] # NULL
    /\ heap[1].right[last.node] # NULL
    /\ heap[1].parent[last.node] # NULL

\* C13: remove-by-key with a key no attached node holds (also on an empty
\* tree) returns NULL and changes nothing: the root pointer and the parent,
\* left, right and skew of every node are as before the call.
C13_RemoveAbsent ==
    [][(last'.op = "remove"
        /\ NodeWithKey(heap[last'.tree], last'.key) = NULL) =>
           /\ last'.ret = NULL
           /\ heap'[last'.tree].root = heap[last'.tree].root
           /\ \A n \in Rec : SameNode(heap[last'.tree], heap'[last'.tree], n)]_vars

\* A key that lies between two keys of the tree was looked for and not found.
C13_Witness ==
    /\ last.op = "remove" /\ last.ret = NULL
    /\ \E a, b \in Attached(heap[1]) : KeyOf(a) < last.key /\ last.key < KeyOf(b)

\* seq without its element x.
Without(seq, x) == SelectSeq(seq, LAMBDA e : e # x)

\* C14: remove-by-key with a key an attached node holds returns that node
\* and removes only it: afterwards the tree holds every node it held before
\* except the returned one, in the same in-order order.
C14_RemovePresent ==
    [][(last'.op = "remove"
        /\ NodeWithKey(heap[last'.tree], last'.key) # NULL) =>
           /\ last'.ret = NodeWithKey(heap[last'.tree], last'.key)
           /\ Attached(heap'[last'.tree])
                  = Attached(heap[last'.tree]) \ {last'.ret}
           /\ InOrder(heap'[last'.tree])
                  = Without(InOrder(heap[last'.tree]), last'.ret)]_vars

\* A node with two children was removed by key and at least three remain.
C14_Witness ==
    /\ last.op = "remove" /\ last.ret # NULL
    /\ last.side # SAVL_EVEN
    /\ Cardinality(Attached(heap[1])) >= 3

\* ------------------------------------------------------------- savl_get

\* savl_get(tree, cmpfn, key): the node savl_search stops at when its key
\* compares equal, NULL otherwise.
savl_get(h, key) == search_get(savl_search(h, h.root, key))

\* savl_get(tree, cmpfn, key): the tree is passed by value and not written.
Get ==
    \E t \in trees :
        \E key \in {KeyOf(r) : r \in Pool(t)} :
            /\ Alive
            /\ last' = [NoCall EXCEPT !.op = "get", !.tree = t, !.key = key,
                                      !.ret = savl_get(heap[t], key)]
            /\ UNCHANGED <<heap, which_repl, crashed, ties, tieSide, trees, frame,
                           scenario>>

\* A program that looks keys up between its savl_try_add and savl_remove calls.
NextGet ==
    \/ TryAdd
    \/ Remove
    \/ Get

SpecGet == Init /\ [][NextGet]_vars

\* C15: get returns the attached node of equal key when there is one and
\* NULL otherwise and changes nothing in the tree; a tryAdd with the same key
\* that follows it at once returns what get returned: NULL (the node is
\* inserted) when get found nothing, the same node when get found one.
C15_GetAgrees ==
    [][/\ last'.op = "get" =>
              /\ last'.ret = NodeWithKey(heap[last'.tree], last'.key)
              /\ heap' = heap
       /\ (/\ last.op = "get"
           /\ last'.op = "add" /\ ~last'.replace
           /\ last'.tree = last.tree /\ last'.key = last.key) =>
              /\ last'.ret = last.ret
              /\ last.ret = NULL => last'.node \in Attached(heap'[last'.tree])]_vars

\* get found a node that is not the root of its tree.
C15_Witness ==
    /\ last.op = "get" /\ last.ret # NULL
    /\ heap[1].parent[last.ret] # NULL
    /\ Cardinality(Attached(heap[1])) >= 4

\* -------------------------------------------------------------- iteration

\* for (n = savl_first(tree); n != NULL; n = savl_next(n)): the nodes the loop
\* visits from node on.  fuel bounds a loop that would not end.
RECURSIVE iterate_next(_, _, _)
iterate_next(h, node, fuel) ==
    IF node = NULL \/ fuel = 0 THEN <<>>
    ELSE <<node>> \o iterate_next(h, savl_next(h, node), fuel - 1)

\* for (n = savl_last(tree); n != NULL; n = savl_prev(n))
RECURSIVE iterate_prev(_, _, _)
iterate_prev(h, node, fuel) ==
    IF node = NULL \/ fuel = 0 THEN <<>>
    ELSE <<node>> \o iterate_prev(h, savl_prev(h, node), fuel - 1)

\* The program walks a tree that has nodes from its first node forward.
Walk ==
    \E t \in trees :
        /\ Alive
        /\ heap[t].root # NULL
        /\ last' = [NoCall EXCEPT !.op = "walk", !.tree = t,
                       !.calls = iterate_next(heap[t], savl_first(heap[t], heap[t].root),
                                              MaxRec + 1)]
        /\ UNCHANGED <<heap, which_repl, crashed, ties, tieSide, trees, frame, scenario>>

\* The program walks a tree that has nodes from its last node backward.
WalkBack ==
    \E t \in trees :
        /\ Alive
        /\ heap[t].root # NULL
        /\ last' = [NoCall EXCEPT !.op = "walk_back", !.tree = t,
                       !.calls = iterate_prev(heap[t], savl_last(heap[t], heap[t].root),
                                              MaxRec + 1)]
        /\ UNCHANGED <<heap, which_repl, crashed, ties, tieSide, trees, frame, scenario>>

\* Fill and drain a tree, walking it at any point in between.
NextWalk ==
    \/ FillAdd
    \/ StartDrain
    \/ DrainRemove
    \/ DrainRemoveNode
    \/ Walk
    \/ WalkBack

SpecWalk == InitFill /\ [][NextWalk]_vars

\* C16: on a tree of n nodes, first(root) followed by repeated next visits
\* exactly n distinct nodes in strictly increasing key order (the in-order
\* sequence of the tree), and next of the last of them is NULL.
C16_NextVisitsAll ==
    last.op = "walk" =>
        /\ last.calls = InOrder(heap[last.tree])
        /\ Len(last.calls) = Cardinality(Attached(heap[last.tree]))
        /\ {last.calls[i] : i \in 1..Len(last.calls)} = Attached(heap[last.tree])
        /\ StrictlyIncreasing(last.calls)
        /\ savl_next(heap[last.tree], last.calls[Len(last.calls)]) = NULL

\* A tree of at least five nodes was walked forward after a removal.
C16_Witness ==
    /\ last.op = "walk"
    /\ scenario.phase = "drain" /\ scenario.removed # {}
    /\ Len(last.calls) >= 5

Reverse(seq) == [i \in 1..Len(seq) |-> seq[Len(seq) + 1 - i]]

\* C17: prev is the inverse of next: repeated prev from last(root) gives the
\* reverse of repeated next from first(root); next(x) = y with y not NULL
\* implies prev(y) = x; prev(first(root)) is NULL.
C17_PrevInvertsNext ==
    last.op = "walk_back" =>
        /\ last.calls = Reverse(iterate_next(heap[last.tree],
                                    savl_first(heap[last.tree], heap[last.tree].root),
                                    MaxRec + 1))
        /\ Len(last.calls) = Cardinality(Attached(heap[last.tree]))
        /\ \A x \in Attached(heap[last.tree]) :
               savl_next(heap[last.tree], x) # NULL =>
                   savl_prev(heap[last.tree], savl_next(heap[last.tree], x)) = x
        /\ savl_prev(heap[last.tree],
                     savl_first(heap[last.tree], heap[last.tree].root)) = NULL

\* A tree of depth 4 was walked backward while it was being filled.
C17_Witness ==
    /\ last.op = "walk_back"
    /\ scenario.phase = "fill"
    /\ Depth(heap[1], heap[1].root) = 4

\* The positions at which x occurs in seq.
PositionsOf(seq, x) == {i \in 1..Len(seq) : seq[i] = x}

\* Everything below node n in h is handed over before n is.
AfterItsSubtrees(h, calls, n) ==
    \A m \in SubtreeOf(h, h.left[n]) \cup SubtreeOf(h, h.right[n]) :
        \A i \in PositionsOf(calls, m) : \A j \in PositionsOf(calls, n) : i < j

\* C18: savl_free on a tree of n nodes calls freefn exactly once on each of
\* the n nodes and on nothing else, on a node only after all nodes of its
\* left and right subtrees, and ends with the root NULL.
C18_FreeVisitsAll ==
    [][(last'.op = "free" /\ ~last'.empty) =>
           /\ Len(last'.calls) = Cardinality(Attached(heap[last'.tree]))
           /\ \A n \in Rec :
                  Cardinality(PositionsOf(last'.calls, n))
                      = IF n \in Attached(heap[last'.tree]) THEN 1 ELSE 0
           /\ \A n \in Attached(heap[last'.tree]) :
                  AfterItsSubtrees(heap[last'.tree], last'.calls, n)
           /\ heap'[last'.tree].root = NULL
           /\ ~heap'[last'.tree].failed]_vars

\* A tree of at least five nodes was freed.
C18_Witness ==
    /\ last.op = "free" /\ ~last.empty
    /\ Len(last.calls) >= 5
    /\ heap[1].root = NULL

\* ------------------------------------------------------- reused nodes

\* Node new as an earlier use left it: its links hold the pointer g (nothing,
\* the node itself or a node of this tree) and its skew is k.
Stale(h, new, g, k) ==
    [h EXCEPT !.parent[new] = g, !.left[new] = g, !.right[new] = g,
              !.skew[new] = k]

\* The records a program that reuses its nodes works with; the last one
\* repeats the key of another.
ReusePool == (1..(MaxRec1 - 1)) \cup {MaxRec}

\* savl_add of a node that is in no tree and whose fields hold whatever its
\* earlier use left in them.
AddStale ==
    \E t \in trees, new \in ReusePool, replace \in BOOLEAN,
       k \in {SAVL_LEFT, SAVL_EVEN, SAVL_RIGHT} :
      \E g \in {NULL, new, heap[t].root} :
        /\ Alive
        /\ new \notin Attached(heap[t])
        /\ heap' = [heap EXCEPT ![t] =
               savl_add(Stale(heap[t], new, g, k), KeyOf(new), new, replace).h]
        /\ last' = [NoCall EXCEPT
               !.op = "add", !.tree = t, !.node = new, !.key = KeyOf(new),
               !.replace = replace,
               !.ret = savl_add(Stale(heap[t], new, g, k), KeyOf(new), new,
                                replace).ret,
               !.dirty = Dirty(Stale(heap[t], new, g, k), new)]
        /\ UNCHANGED <<which_repl, crashed, ties, tieSide, trees, frame, scenario>>

\* A program that adds nodes it used before and removes them again.
NextReuse ==
    \/ AddStale
    \/ Remove

SpecReuse == Init /\ [][NextReuse]_vars

\* Tree h is a binary search tree under KeyOf.
IsSearchTree(h) ==
    /\ \A n \in Attached(h) :
           /\ \A m \in SubtreeOf(h, h.left[n]) : KeyOf(m) < KeyOf(n)
           /\ \A m \in SubtreeOf(h, h.right[n]) : KeyOf(m) > KeyOf(n)
    /\ StrictlyIncreasing(InOrder(h))

\* Every skew of tree h is -1, 0 or 1 and is the difference of the depths.
IsBalanced(h) ==
    \A n \in Attached(h) :
        /\ h.skew[n] \in {SAVL_LEFT, SAVL_EVEN, SAVL_RIGHT}
        /\ h.skew[n] = Depth(h, h.right[n]) - Depth(h, h.left[n])

\* Parent and child links of tree h agree.
IsParentConsistent(h) ==
    \A n \in Attached(h) :
        /\ h.parent[n] = IF n = h.root THEN NULL
                         ELSE CHOOSE p \in Attached(h) :
                                  h.left[p] = n \/ h.right[p] = n
        /\ n # h.root => \E p \in Attached(h) : h.left[p] = n \/ h.right[p] = n

\* C19: a node that was removed, displaced by forceAdd or used in another
\* tree may be added again: add clears its left, right and skew and sets its
\* parent before linking it, so whatever the fields held, the tree is a
\* balanced search tree with consistent parents afterwards and the node is
\* in it (or was refused for an equal key).
C19_ReAddClean ==
    (last.op = "add" /\ last.dirty) =>
        /\ IsSearchTree(heap[last.tree])
        /\ IsBalanced(heap[last.tree])
        /\ IsParentConsistent(heap[last.tree])
        /\ ~heap[last.tree].failed
        /\ \/ last.node \in Attached(heap[last.tree])
           \/ last.ret # NULL /\ ~last.replace

\* A node with stale fields was added below the root of a tree of at least
\* four nodes.
C19_Witness ==
    /\ last.op = "add" /\ last.dirty /\ last.ret = NULL
    /\ heap[1].parent[last.node] # NULL
    /\ Cardinality(Attached(heap[1])) >= 4

\* ------------------------------------------------- insertion sequences

\* Add a node whose key the tree does not hold yet and note it in the
\* sequence of nodes added so far.
AddLogged ==
    /\ scenario.phase = "fill"
    /\ Alive
    /\ \E new \in (1..NumKeys) \ scenario.batch :
           /\ heap' = [heap EXCEPT ![1] =
                  savl_try_add(heap[1], KeyOf(new), new).h]
           /\ last' = [NoCall EXCEPT
                  !.op = "add_logged", !.tree = 1, !.node = new,
                  !.key = KeyOf(new),
                  !.ret = savl_try_add(heap[1], KeyOf(new), new).ret,
                  !.calls = Append(last.calls, new)]
           /\ scenario' = [scenario EXCEPT !.batch = @ \cup {new}]
    /\ UNCHANGED <<which_repl, crashed, ties, tieSide, trees, frame>>

NextLogged == AddLogged

SpecLogged == InitFill /\ [][NextLogged]_vars

\* Node n of tree h has the given left child, right child and parent and
\* skew 0.
Shaped(h, n, l, r, p) ==
    /\ h.left[n] = l
    /\ h.right[n] = r
    /\ h.parent[n] = p
    /\ h.skew[n] = SAVL_EVEN

\* C20: adding the keys 1, 2, 3, 4, 5, 6, 7 in this order to an empty tree
\* gives the complete tree of height 3: root 4 with children 2 and 6, leaves
\* 1, 3, 5 and 7, every skew 0.
C20_IncreasingComplete ==
    (last.op = "add_logged" /\ last.calls = <<1, 2, 3, 4, 5, 6, 7>>) =>
        /\ ~heap[1].failed
        /\ \A i \in 1..7 : KeyOf(last.calls[i]) = i
        /\ heap[1].root = 4
        /\ Shaped(heap[1], 4, 2, 6, NULL)
        /\ Shaped(heap[1], 2, 1, 3, 4)
        /\ Shaped(heap[1], 6, 5, 7, 4)
        /\ \A n \in {1, 3} : Shaped(heap[1], n, NULL, NULL, 2)
        /\ \A n \in {5, 7} : Shaped(heap[1], n, NULL, NULL, 6)
        /\ Depth(heap[1], heap[1].root) = 3
        /\ Attached(heap[1]) = 1..7

\* The seven keys were added in increasing order.
C20_Witness ==
    /\ last.op = "add_logged"
    /\ last.calls = <<1, 2, 3, 4, 5, 6, 7>>
    /\ last.ret = NULL
    /\ Cardinality(Attached(heap[1])) = 7

\* ------------------------------------------- statement by statement

\* The records of the program followed statement by statement; record
\* MaxRec repeats a key, the records after it carry the keys NumKeys + 1 ...
StepRec == 1..(DeepKeys + 1)

RecOfKey(k) == IF k <= NumKeys THEN k ELSE k + 1

StepHeap ==
    [root   |-> NULL,
     parent |-> [r \in StepRec |-> NULL],
     left   |-> [r \in StepRec |-> NULL],
     right  |-> [r \in StepRec |-> NULL],
     skew   |-> [r \in StepRec |-> SAVL_EVEN],
     failed |-> FALSE]

\* The keys a program adds first, in this order: level by level, the
\* sparsest tree of depth 5 ("deep"), or the keys in increasing order
\* ("rising"); a program that adds and removes at will adds none first.
ScriptOf(phase) ==
    IF phase = "deep" THEN <<8, 5, 11, 3, 7, 9, 12, 2, 4, 6, 10, 1>>
    ELSE IF phase = "rising" THEN [i \in 1..MaxRec1 |-> i]
    ELSE <<>>

InitStep ==
    /\ heap = [t \in Tree |-> StepHeap]
    /\ which_repl = FALSE
    /\ crashed = FALSE
    /\ last = NoCall
    /\ ties = [t \in Tree |-> 0]
    /\ tieSide = [t \in Tree |-> SAVL_EVEN]
    /\ trees = {1}
    /\ \E phase \in {"step", "deep", "rising"} :
           scenario = [phase |-> phase, batch |-> {}, removed |-> {}]
    /\ frame = NoFrame

\* No call is in progress.
Idle == frame.pc = "idle" /\ Alive

Scripted == Cardinality(scenario.batch) < Len(ScriptOf(scenario.phase))

\* The records the program may pass to savl_try_add next.
AddChoices ==
    IF Scripted
    THEN {RecOfKey(ScriptOf(scenario.phase)[Cardinality(scenario.batch) + 1])}
    ELSE IF scenario.phase = "step"
    THEN ((1..MaxRec1) \cup {MaxRec}) \ Attached(heap[1])
    ELSE IF frame.ops < MaxDeepOps
    THEN {RecOfKey(k) : k \in 1..DeepKeys} \ Attached(heap[1])
    ELSE {}

\* The keys the program may pass to savl_remove next.
RemoveChoices ==
    IF Scripted THEN {}
    ELSE IF scenario.phase = "step" THEN 1..MaxRec1
    ELSE IF frame.ops < MaxDeepOps
    THEN {KeyOf(n) : n \in Attached(heap[1])}
    ELSE {}

\* The frame of a call that starts: b.pc is where it stands after its first
\* statements, b.node and b.which_child what it passes to the rebalancing.
Started(op, target, b) ==
    [NoFrame EXCEPT !.op = op, !.pc = b.pc, !.node = b.node,
                    !.which_child = b.which_child, !.target = target,
                    !.ops = IF scenario.phase = "step" \/ Scripted THEN frame.ops
                            ELSE frame.ops + 1]

\* savl_try_add up to its call of savl_add_rebalance (lines 594-630).
add_begin_found(h, new, s) ==
    IF s.which = SAVL_EVEN
    THEN [h |-> h, pc |-> "idle", node |-> NULL, which_child |-> SAVL_EVEN,
          ret |-> h.parent[new]]
    ELSE [h |-> add_linked(h, new, s.which), pc |-> "add_loop",
          node |-> h.parent[new], which_child |-> s.which, ret |-> NULL]

add_begin_search(h, new, s) ==
    add_begin_found([h EXCEPT !.parent[new] = s.result], new, s)

add_begin_cleared(h, new) ==
    IF h.root = NULL
    THEN [h |-> [h EXCEPT !.parent[new] = NULL, !.root = new], pc |-> "idle",
          node |-> NULL, which_child |-> SAVL_EVEN, ret |-> NULL]
    ELSE add_begin_search(h, new, savl_search(h, h.root, KeyOf(new)))

add_begin(h, new) ==
    add_begin_cleared([h EXCEPT !.left[new] = NULL, !.right[new] = NULL,
                                !.skew[new] = SAVL_EVEN], new)

Begin(op, target, key, b) ==
    /\ heap' = [heap EXCEPT ![1] = b.h]
    /\ frame' = Started(op, target, b)
    /\ last' = [NoCall EXCEPT !.op = op, !.tree = 1, !.node = target,
                              !.key = key, !.ret = b.ret]

BeginAdd ==
    /\ Idle
    /\ \E new \in AddChoices :
           /\ Begin("add", new, KeyOf(new), add_begin(heap[1], new))
           /\ scenario' = IF Scripted
                          THEN [scenario EXCEPT !.batch = @ \cup {new}]
                          ELSE scenario
    /\ UNCHANGED <<which_repl, crashed, ties, tieSide, trees>>

\* One pass through the while loop of savl_add_rebalance up to the continue,
\* the return or the rotation (lines 513-537).
add_iter_skewed(h, node) ==
    IF h.skew[node] = SAVL_EVEN
    THEN [h |-> h, pc |-> "idle", node |-> node, which_child |-> SAVL_EVEN]
    ELSE IF h.skew[node] = SAVL_LEFT \/ h.skew[node] = SAVL_RIGHT
    THEN [h |-> c_assert(h, which_child_assert(h, node)), pc |-> "add_loop",
          node |-> h.parent[node], which_child |-> savl_which_child(h, node)]
    ELSE [h |-> c_assert(h, which_child_assert(h, node)), pc |-> "add_inner",
          node |-> node, which_child |-> savl_which_child(h, node)]

\* A pass that leaves the node's skew as it was.
add_iter_unskewed(h, node, which_child) ==
    IF node = NULL
    THEN [h |-> h, pc |-> "idle", node |-> NULL, which_child |-> which_child]
    ELSE add_iter_skewed(h, node)

add_iter(h, node, which_child) ==
    IF node = NULL
    THEN [h |-> h, pc |-> "idle", node |-> NULL, which_child |-> which_child]
    ELSE add_iter_skewed([h EXCEPT !.skew[node] = @ + which_child], node)

\* The depth of the subtree at n from the links alone, node x left out.
RECURSIVE DepthBut(_, _, _, _)
DepthBut(h, n, x, fuel) ==
    IF n = NULL \/ n = x \/ fuel = 0 THEN 0
    ELSE 1 + Max(DepthBut(h, h.left[n], x, fuel - 1),
                 DepthBut(h, h.right[n], x, fuel - 1))

\* The frame after a pass: .growth is what lines 531 and 721 store before a
\* rotation; .depth0 notes the depth the subtree to be rotated has without
\* the call's own node, which is its depth before an addition and its depth
\* after a removal.
Iterated(i, growth) ==
    /\ heap' = [heap EXCEPT ![1] = i.h]
    /\ frame' = [frame EXCEPT !.pc = i.pc, !.node = i.node,
                              !.which_child = i.which_child,
                              !.growth = IF i.pc \in {"add_loop", "add_inner",
                                                      "del_inner"}
                                         THEN growth ELSE @,
                              !.depth0 = IF i.pc \in {"add_inner", "del_inner"}
                                         THEN DepthBut(i.h, i.node, frame.target,
                                                       DeepKeys + 1)
                                         ELSE @]
    /\ UNCHANGED <<which_repl, crashed, last, ties, tieSide, trees, scenario>>

AddIter ==
    /\ frame.pc = "add_loop"
    /\ Iterated(add_iter(heap[1], frame.node, frame.which_child), 1)

\* Lines 540-541 and 545-546: the inner promotion of the zig-zag case.
Inner(r) ==
    /\ heap' = [heap EXCEPT ![1] = r.h]
    /\ frame' = [frame EXCEPT
           !.pc = IF frame.pc = "add_inner" THEN "add_outer" ELSE "del_outer",
           !.growth = r.growth,
           !.promos = IF r.h = heap[1] THEN @ ELSE @ + 1]
    /\ UNCHANGED <<which_repl, crashed, last, ties, tieSide, trees, scenario>>

AddInner ==
    /\ frame.pc = "add_inner"
    /\ Inner(IF heap[1].skew[frame.node] = SAVL_DBL_LEFT
             THEN add_inner_right(heap[1], frame.node, frame.growth)
             ELSE add_inner_left(heap[1], frame.node, frame.growth))

\* A rotation after which the loop goes on to the parent.
add_rotated_on(r, which_child) ==
    [h |-> store_subtree(r.h, which_child, r.node), pc |-> "add_loop",
     node |-> r.h.parent[r.node], growth |-> r.growth]

\* Lines 542 and 547 to 560: the outer promotion, the store of the new
\* subtree root, assert(growth == 0) and the return.
add_rotated(r, which_child) ==
    [h |-> c_assert(store_subtree(r.h, which_child, r.node), r.growth = 0),
     pc |-> "idle", node |-> r.node, growth |-> r.growth]

Outer(r) ==
    /\ heap' = [heap EXCEPT ![1] = r.h]
    /\ frame' = [frame EXCEPT !.pc = r.pc, !.node = r.node,
                              !.growth = r.growth, !.promos = @ + 1,
                              !.rots = @ + 1]
    /\ UNCHANGED <<which_repl, crashed, last, ties, tieSide, trees, scenario>>

AddOuter ==
    /\ frame.pc = "add_outer"
    /\ Outer(add_rotated(
           IF heap[1].skew[frame.node] = SAVL_DBL_LEFT
           THEN add_outer_left([h |-> heap[1], growth |-> frame.growth],
                               frame.node)
           ELSE add_outer_right([h |-> heap[1], growth |-> frame.growth],
                                frame.node),
           frame.which_child))

\* savl_remove up to the call of savl_del_rebalance: the search (line 1007),
\* savl_remove_node's choice (978-981), savl_del_simple to line 784 or
\* savl_del_complex to line 961.
del_begin_simple(h, node, repl, which_child) ==
    [h |-> del_simple_link(h, node, repl, which_child),
     pc |-> IF which_child = SAVL_EVEN THEN "del_clear" ELSE "del_loop",
     node |-> h.parent[node], which_child |-> which_child]

del_begin_repl(h, node, repl) ==
    del_begin_simple(
        c_assert([h EXCEPT !.parent = SetIf(@, repl, h.parent[node])],
                 which_child_assert(h, node)),
        node, repl, savl_which_child(h, node))

del_begin_complex(node, r) ==
    [h |-> del_complex_splice(r.h, node, r.repl), pc |-> "del_loop",
     node |-> r.h.parent[r.repl], which_child |-> r.h.skew[r.repl]]

del_begin_node(h, node, pick) ==
    IF h.left[node] = NULL \/ h.right[node] = NULL
    THEN del_begin_repl(h, node, IF h.left[node] # NULL THEN h.left[node]
                                 ELSE h.right[node])
    ELSE del_begin_complex(node, IF pick.which_subtree = SAVL_LEFT
                                 THEN savl_left_repl(h, node)
                                 ELSE savl_right_repl(h, node))

\* The static which_repl after the call: flipped by a complex deletion of a
\* node whose skew is even.
del_begin_flag(h, node, wr) ==
    IF h.left[node] = NULL \/ h.right[node] = NULL THEN wr
    ELSE which_subtree_of(h.skew[node], wr).which_repl

del_begin(h, wr, s) ==
    IF s.which # SAVL_EVEN \/ s.result = NULL
    THEN [h |-> h, pc |-> "idle", node |-> NULL, which_child |-> SAVL_EVEN,
          ret |-> NULL, which_repl |-> wr]
    ELSE [ret |-> s.result, which_repl |-> del_begin_flag(h, s.result, wr)]
         @@ del_begin_node(h, s.result,
                           which_subtree_of(h.skew[s.result], wr))

BeginRemove ==
    /\ Idle
    /\ \E key \in RemoveChoices :
           /\ Begin("remove", savl_get(heap[1], key), key,
                    del_begin(heap[1], which_repl,
                              savl_search(heap[1], heap[1].root, key)))
           /\ which_repl' = del_begin(heap[1], which_repl,
                                savl_search(heap[1], heap[1].root, key)).which_repl
    /\ UNCHANGED <<crashed, ties, tieSide, trees, scenario>>

\* A pass that goes on at the node it stands on where the loop goes on at
\* the parent.
del_iter_skewed_stays(h, node) ==
    IF h.skew[node] = SAVL_LEFT \/ h.skew[node] = SAVL_RIGHT
    THEN [h |-> h, pc |-> "del_clear", node |-> node,
          which_child |-> SAVL_EVEN]
    ELSE IF h.skew[node] = SAVL_EVEN
    THEN [h |-> h, pc |-> "del_loop", node |-> node,
          which_child |-> savl_which_child(h, node)]
    ELSE [h |-> h, pc |-> "del_inner", node |-> node,
          which_child |-> savl_which_child(h, node)]

\* One pass through the while loop of savl_del_rebalance up to the continue,
\* the return or the rotation (lines 697-721).
del_iter_skewed(h, node) ==
    IF h.skew[node] = SAVL_LEFT \/ h.skew[node] = SAVL_RIGHT
    THEN [h |-> h, pc |-> "del_clear", node |-> node,
          which_child |-> SAVL_EVEN]
    ELSE IF h.skew[node] = SAVL_EVEN
    THEN [h |-> c_assert(h, which_child_assert(h, node)), pc |-> "del_loop",
          node |-> h.parent[node], which_child |-> savl_which_child(h, node)]
    ELSE [h |-> c_assert(h, which_child_assert(h, node)), pc |-> "del_inner",
          node |-> node, which_child |-> savl_which_child(h, node)]

del_iter(h, node, which_child) ==
    IF node = NULL
    THEN [h |-> h, pc |-> "del_clear", node |-> NULL,
          which_child |-> which_child]
    ELSE del_iter_skewed([h EXCEPT !.skew[node] = @ - which_child], node)

DelIter ==
    /\ frame.pc = "del_loop"
    /\ Iterated(del_iter(heap[1], frame.node, frame.which_child), 0)

DelInner ==
    /\ frame.pc = "del_inner"
    /\ Inner(IF heap[1].skew[frame.node] = SAVL_DBL_LEFT
             THEN del_inner_right(heap[1], frame.node, frame.growth)
             ELSE del_inner_left(heap[1], frame.node, frame.growth))

\* A loop that returns after every rotation.
del_stored_stops(h, node, growth) ==
    [h |-> h, pc |-> "del_clear", node |-> node, growth |-> growth]

\* Lines 726 and 731 to 748: the outer promotion, the store of the new
\* subtree root, and the return or the step to the parent.
del_stored(h, node, growth) ==
    IF growth = 0
    THEN [h |-> h, pc |-> "del_clear", node |-> node, growth |-> growth]
    ELSE [h |-> c_assert(h, growth = -1), pc |-> "del_loop",
          node |-> h.parent[node], growth |-> growth]

del_outer_stored(r, which_child) ==
    del_stored(store_subtree(r.h, which_child, r.node), r.node, r.growth)

DelOuter ==
    /\ frame.pc = "del_outer"
    /\ Outer(del_outer_stored(
           IF heap[1].skew[frame.node] = SAVL_DBL_LEFT
           THEN del_outer_left([h |-> heap[1], growth |-> frame.growth],
                               frame.node)
           ELSE del_outer_right([h |-> heap[1], growth |-> frame.growth],
                                frame.node),
           frame.which_child))

\* Lines 983-986, after savl_del_simple or savl_del_complex has returned.
DelClear ==
    /\ frame.pc = "del_clear"
    /\ heap' = [heap EXCEPT ![1] =
           remove_node_clear([h |-> heap[1], which_repl |-> which_repl,
                              side |-> SAVL_EVEN, tie |-> FALSE],
                             frame.target).h]
    /\ frame' = [frame EXCEPT !.pc = "idle"]
    /\ UNCHANGED <<which_repl, crashed, last, ties, tieSide, trees, scenario>>

\* savl_remove_node(&tree, node) on an attached node, up to its call of
\* savl_del_rebalance: what savl_remove does once it has found its node.
BeginRemoveNode ==
    /\ Idle
    /\ \E node \in {n \in Attached(heap[1]) : KeyOf(n) \in RemoveChoices} :
           /\ Begin("remove_node", node, KeyOf(node),
                    [ret |-> NULL]
                    @@ del_begin_node(heap[1], node,
                           which_subtree_of(heap[1].skew[node], which_repl)))
           /\ which_repl' = del_begin_flag(heap[1], node, which_repl)
    /\ UNCHANGED <<crashed, ties, tieSide, trees, scenario>>

\* savl_force_add(&tree, cmpfn, key, new) by a program that has added the
\* keys of its script, with a record of a new key or the record whose key
\* repeats one: as savl_try_add, but a node of equal key is replaced
\* (lines 612-616) before the call returns it.
BeginForceAdd ==
    /\ Idle
    /\ ~Scripted
    /\ scenario.phase # "step"
    /\ \E new \in (IF AddChoices = {} THEN {} ELSE AddChoices \cup {MaxRec})
                   \ Attached(heap[1]) :
           Begin("force_add", new, KeyOf(new),
                 IF add_begin(heap[1], new).ret = NULL
                 THEN add_begin(heap[1], new)
                 ELSE [add_begin(heap[1], new) EXCEPT
                          !.h = savl_replace(@, new).h])
    /\ UNCHANGED <<which_repl, crashed, ties, tieSide, trees, scenario>>

\* savl_search statement by statement, as savl_get calls it: the call
\* stands before its first comparison (line 433) unless the tree is empty.
BeginSearch ==
    /\ Idle
    /\ ~Scripted
    /\ \E key \in RemoveChoices :
           Begin("search", NULL, key,
                 [h |-> heap[1],
                  pc |-> IF heap[1].root = NULL THEN "idle" ELSE "search",
                  node |-> heap[1].root, which_child |-> SAVL_EVEN,
                  ret |-> NULL])
    /\ UNCHANGED <<which_repl, crashed, ties, tieSide, trees, scenario>>

\* One pass through the while loop of savl_search (lines 433-445), and
\* after the break lines 449-452.
search_pass(h, node, key) ==
    IF cmpfn(key, node) < 0 /\ h.left[node] # NULL
    THEN [pc |-> "search", node |-> h.left[node], which_child |-> SAVL_EVEN]
    ELSE IF cmpfn(key, node) > 0 /\ h.right[node] # NULL
    THEN [pc |-> "search", node |-> h.right[node], which_child |-> SAVL_EVEN]
    ELSE [pc |-> "idle", node |-> node,
          which_child |-> (IF cmpfn(key, node) > 0 THEN 1 ELSE 0)
                          - (IF cmpfn(key, node) < 0 THEN 1 ELSE 0)]

SearchPass ==
    /\ frame.pc = "search"
    /\ frame' = [frame EXCEPT
           !.pc = search_pass(heap[1], frame.node, last.key).pc,
           !.node = search_pass(heap[1], frame.node, last.key).node,
           !.which_child =
               search_pass(heap[1], frame.node, last.key).which_child]
    /\ UNCHANGED <<heap, which_repl, crashed, last, ties, tieSide, trees,
                   scenario>>

\* The loop of the README, for (n = savl_first(tree); n != NULL;
\* n = savl_next(n)), and its mirror with savl_last and savl_prev, on a
\* tree that is not empty; dir is the way the loop goes, SAVL_RIGHT with
\* savl_next.  The call stands at the while of savl_first or savl_last.
BeginWalk ==
    /\ Idle
    /\ ~Scripted
    /\ heap[1].root # NULL
    /\ RemoveChoices # {}
    /\ \E dir \in {SAVL_LEFT, SAVL_RIGHT} :
           Begin("walk", NULL, 0,
                 [h |-> heap[1], pc |-> "walk_down", node |-> heap[1].root,
                  which_child |-> dir, ret |-> NULL])
    /\ UNCHANGED <<which_repl, crashed, ties, tieSide, trees, scenario>>

\* One statement of savl_first, savl_last, savl_next or savl_prev.
\* "walk_down": the while of lines 1024, 1039, 1056 or 1078;
\* "walk_at": the caller holds the node and calls savl_next or savl_prev
\* (lines 1054-1055, 1076-1077); "walk_up": the while of lines 1061 or
\* 1083 and the return of the parent.
walk_step(h, pc, node, dir) ==
    IF pc = "walk_down"
    THEN IF (IF dir = SAVL_RIGHT THEN h.left[node] ELSE h.right[node]) # NULL
         THEN [pc |-> "walk_down",
               node |-> IF dir = SAVL_RIGHT THEN h.left[node]
                        ELSE h.right[node]]
         ELSE [pc |-> "walk_at", node |-> node]
    ELSE IF pc = "walk_at"
    THEN IF (IF dir = SAVL_RIGHT THEN h.right[node] ELSE h.left[node]) # NULL
         THEN [pc |-> "walk_down",
               node |-> IF dir = SAVL_RIGHT THEN h.right[node]
                        ELSE h.left[node]]
         ELSE [pc |-> "walk_up", node |-> node]
    ELSE IF savl_which_child(h, node) = dir
    THEN [pc |-> "walk_up", node |-> h.parent[node]]
    ELSE [pc |-> IF h.parent[node] = NULL THEN "idle" ELSE "walk_at",
          node |-> h.parent[node]]

\* frame.target is the node the caller held last.
WalkStep ==
    /\ frame.pc \in {"walk_down", "walk_at", "walk_up"}
    /\ heap' = [heap EXCEPT ![1] =
           IF frame.pc = "walk_up"
           THEN c_assert(@, which_child_assert(@, frame.node)) ELSE @]
    /\ frame' = [frame EXCEPT
           !.pc = walk_step(heap[1], frame.pc, frame.node,
                            frame.which_child).pc,
           !.node = walk_step(heap[1], frame.pc, frame.node,
                              frame.which_child).node,
           !.target = IF frame.pc = "walk_at" THEN frame.node ELSE @]
    /\ UNCHANGED <<which_repl, crashed, last, ties, tieSide, trees, scenario>>

\* savl_free on a tree that is not empty, up to its while (line 1101).
BeginFree ==
    /\ Idle
    /\ ~Scripted
    /\ heap[1].root # NULL
    /\ RemoveChoices # {}
    /\ Begin("free", NULL, 0,
             [h |-> heap[1], pc |-> "free",
              node |-> savl_first(heap[1], heap[1].root),
              which_child |-> SAVL_EVEN, ret |-> NULL])
    /\ UNCHANGED <<which_repl, crashed, ties, tieSide, trees, scenario>>

\* One pass through the while loop of savl_free (lines 1103-1128);
\* frame.target is the node handed to freefn last, last.calls the nodes
\* handed to it so far.
FreePass ==
    /\ frame.pc = "free"
    /\ heap' = [heap EXCEPT ![1] =
           IF frame.node # NULL /\ @.left[frame.node] = NULL
                                /\ @.right[frame.node] = NULL
           THEN free_unlink(@, frame.node, savl_which_child(@, frame.node))
           ELSE @]
    /\ frame' =
           IF frame.node = NULL THEN [frame EXCEPT !.pc = "idle"]
           ELSE IF heap[1].left[frame.node] # NULL
           THEN [frame EXCEPT !.node = heap[1].left[frame.node]]
           ELSE IF heap[1].right[frame.node] # NULL
           THEN [frame EXCEPT !.node = heap[1].right[frame.node]]
           ELSE [frame EXCEPT !.node = heap[1].parent[frame.node],
                              !.target = frame.node]
    /\ last' = IF frame.node # NULL /\ heap[1].left[frame.node] = NULL
                                     /\ heap[1].right[frame.node] = NULL
               THEN [last EXCEPT !.calls = Append(@, frame.node)]
               ELSE last
    /\ UNCHANGED <<which_repl, crashed, ties, tieSide, trees, scenario>>

NextStep ==
    \/ BeginAdd
    \/ AddIter
    \/ AddInner
    \/ AddOuter
    \/ BeginRemove
    \/ DelIter
    \/ DelInner
    \/ DelOuter
    \/ DelClear
    \/ BeginSearch
    \/ SearchPass
    \/ BeginWalk
    \/ WalkStep
    \/ BeginFree
    \/ FreePass
    \/ BeginRemoveNode
    \/ BeginForceAdd

SpecStep == InitStep /\ [][NextStep]_vars

\* A call that has started runs on: the library takes no lock and waits
\* for nothing, so the statement a call stands at is executed.
Running ==
    \/ AddIter
    \/ AddInner
    \/ AddOuter
    \/ DelIter
    \/ DelInner
    \/ DelOuter
    \/ DelClear
    \/ SearchPass
    \/ WalkStep
    \/ FreePass

LiveStep == SpecStep /\ WF_vars(Running)

\* The program adds keys in increasing order and has added at most the
\* first five: its keys stand for 10, 20, 30, 40 and 50, which cmp_numbers
\* orders as it orders 1 to 5.
RisingFive ==
    /\ scenario.phase = "rising"
    /\ frame.ops = 0
    /\ scenario.batch \subseteq 1..5
    /\ \A n \in scenario.batch : 10 * KeyOf(n) \in {10, 20, 30, 40, 50}

\* C21: adding 10, 20, 30, 40, 50 in this order to an empty tree rebalances
\* on the third and on the fifth addition only, each time with one rotation
\* made of one promotion, and the depth of the tree is never more than 4.
C21_RisingSingle ==
    RisingFive =>
        /\ Depth(heap[1], heap[1].root) <= 4
        /\ (frame.pc = "idle" /\ frame.op = "add") =>
               /\ last.ret = NULL
               /\ frame.rots = (IF frame.target \in {3, 5} THEN 1 ELSE 0)
               /\ frame.promos = frame.rots
        /\ frame.pc \in {"add_inner", "add_outer"} => frame.target \in {3, 5}

\* The fifth key was added and the tree rebalanced with one promotion.
C21_Witness ==
    /\ RisingFive
    /\ scenario.batch = 1..5
    /\ frame.pc = "idle" /\ frame.op = "add" /\ frame.target = 5
    /\ frame.promos = 1
    /\ Depth(heap[1], heap[1].root) = 3

\* The ancestors of node n in tree h, nearest first.
RECURSIVE AncestorsOf(_, _, _)
AncestorsOf(h, n, fuel) ==
    IF n = NULL \/ h.parent[n] = NULL \/ fuel = 0 THEN {}
    ELSE {h.parent[n]} \cup AncestorsOf(h, h.parent[n], fuel - 1)

\* C22: when savl_add_rebalance rotates a doubly skewed node, with one
\* promotion or with two, the growth it has summed up (1 plus what the
\* promotions returned) is 0, so assert(growth == 0) holds; the rotated
\* subtree is as deep as the subtree was before the addition; and the loop
\* ends with the rotation, leaving every ancestor's skew as it was.
C22_AddRotationNeutral ==
    [][frame.pc = "add_outer" =>
           /\ frame'.growth = 0
           /\ ~heap'[1].failed
           /\ frame'.promos \in {1, 2}
           /\ frame'.rots = 1
           /\ Depth(heap'[1], frame'.node) = frame.depth0
           /\ frame'.pc = "idle"
           /\ \A a \in AncestorsOf(heap'[1], frame'.node, DeepKeys) :
                  heap'[1].skew[a] = heap[1].skew[a]]_vars

\* An addition has ended with a rotation of two promotions below another
\* node.
C22_Witness ==
    /\ frame.pc = "idle" /\ frame.op = "add"
    /\ frame.rots = 1 /\ frame.promos = 2
    /\ heap[1].parent[frame.node] # NULL
    /\ Depth(heap[1], frame.node) = frame.depth0

\* C23: when savl_del_rebalance rotates a doubly skewed node, what the
\* promotions returned sums to 0 or to -1, so assert(growth == -1) holds
\* whenever growth is not 0; the sum is the depth of the rotated subtree
\* minus the depth the subtree had before the rotation; and the loop goes on
\* to the parent exactly when the sum is -1 and returns exactly when it is 0.
C23_DelRotationShrinks ==
    [][frame.pc = "del_outer" =>
           /\ frame'.growth \in {0, -1}
           /\ ~heap'[1].failed
           /\ frame'.growth
                  = Depth(heap'[1], heap'[1].parent[frame.node]) - frame.depth0
           /\ frame'.growth = -1 =>
                  /\ frame'.pc = "del_loop"
                  /\ frame'.node = heap'[1].parent[heap'[1].parent[frame.node]]
                  /\ frame'.which_child = frame.which_child
           /\ frame'.growth = 0 => frame'.pc = "del_clear"]_vars

\* A rotation made the subtree shallower and the loop went on to a parent.
C23_Witness ==
    /\ frame.op = "remove" /\ frame.pc = "del_loop"
    /\ frame.rots = 1 /\ frame.growth = -1
    /\ frame.node # NULL

\* C28 as stated: no addition and no removal calls savl_promote_left and
\* savl_promote_right more than twice in all.
C28_AtMostTwo ==
    frame.promos <= 2

\* C28: each rotation is one or two promotions; an addition rotates at most
\* once and so promotes at most twice, while a removal rotates at every
\* ancestor that becomes doubly skewed and may promote more than twice.
C28_TwoPerRotation ==
    /\ frame.rots <= frame.promos
    /\ frame.promos <= 2 * frame.rots + (IF frame.pc \in {"add_outer", "del_outer"}
                                         THEN 1 ELSE 0)
    /\ frame.op = "add" => frame.rots <= 1 /\ frame.promos <= 2
    /\ frame.op = "remove" =>
           frame.rots <= Depth(heap[1], heap[1].root) + 1

\* A removal has rotated twice with three promotions.
C28_Witness ==
    /\ frame.op = "remove" /\ frame.pc = "idle"
    /\ frame.rots = 2 /\ frame.promos = 3

\* ------------------------------------------------- promotions alone

\* Every skew of h set to the depth of the right subtree minus the depth of
\* the left subtree.
Reskew(h) ==
    [h EXCEPT !.skew = [n \in DOMAIN h.skew |->
                            Depth(h, h.right[n]) - Depth(h, h.left[n])]]

\* A subtree for the promotions to work on is grown: a node is hung where
\* savl_search puts its key, nothing is rotated, and the skews are set to
\* what the depths are.  The leftmost, middle and rightmost subtrees come
\* out absent, as leaves or as subtrees of any shape.
Plant ==
    /\ \E new \in (1..NumKeys) \ Attached(heap[1]) :
           /\ heap' = [heap EXCEPT ![1] =
                  Reskew(add_begin(heap[1], new).h)]
           /\ last' = [NoCall EXCEPT !.op = "plant", !.tree = 1, !.node = new,
                                     !.key = KeyOf(new)]
    /\ frame' = NoFrame
    /\ UNCHANGED <<which_repl, crashed, ties, tieSide, trees, scenario>>

\* savl_promote_left (dir is SAVL_LEFT) or savl_promote_right on the subtree
\* whose root is OR, *subtree being the tree root or the child link of OR's
\* parent.
Promoted(OR, dir, p) ==
    /\ heap' = [heap EXCEPT ![1] =
           store_subtree(p.h, savl_which_child(heap[1], OR), p.subtree)]
    /\ last' = [NoCall EXCEPT !.op = "promote", !.tree = 1, !.node = OR,
                              !.side = dir, !.ret = p.subtree]
    /\ frame' = [NoFrame EXCEPT !.op = "promote", !.node = OR,
                                !.which_child = dir, !.growth = p.growth,
                                !.target = p.subtree, !.promos = 1]
    /\ UNCHANGED <<which_repl, crashed, ties, tieSide, trees, scenario>>

Promote ==
    \E OR \in Attached(heap[1]), dir \in {SAVL_LEFT, SAVL_RIGHT} :
        /\ (IF dir = SAVL_LEFT THEN heap[1].left[OR] ELSE heap[1].right[OR])
               # NULL
        /\ heap[1].skew[OR] \in SAVL_DBL_LEFT..SAVL_DBL_RIGHT
        /\ heap[1].skew[IF dir = SAVL_LEFT THEN heap[1].left[OR]
                        ELSE heap[1].right[OR]] \in SAVL_LEFT..SAVL_RIGHT
        /\ Promoted(OR, dir, IF dir = SAVL_LEFT
                             THEN savl_promote_left(heap[1], OR)
                             ELSE savl_promote_right(heap[1], OR))

NextPromote ==
    \/ Plant
    \/ Promote

SpecPromote == Init /\ [][NextPromote]_vars

\* The skew node n of h should have by the depths of its subtrees.
RealSkew(h, n) == Depth(h, h.right[n]) - Depth(h, h.left[n])

\* C24: on a subtree whose root OR has a skew from -2 to 2 and whose promoted
\* child NR has a skew from -1 to 1, both as the depths are,
\* savl_promote_left and savl_promote_right leave OR and NR with the skews
\* the depths give after the rewrite and return the depth of the subtree
\* after minus its depth before.
C24_PromoteSkews ==
    [][(last'.op = "promote" /\ RealSkew(heap[1], last'.node)
                                    = heap[1].skew[last'.node]
                             /\ RealSkew(heap[1], last'.ret)
                                    = heap[1].skew[last'.ret]) =>
           /\ heap'[1].skew[last'.node] = RealSkew(heap'[1], last'.node)
           /\ heap'[1].skew[last'.ret] = RealSkew(heap'[1], last'.ret)
           /\ frame'.growth = Depth(heap'[1], last'.ret)
                              - Depth(heap[1], last'.node)]_vars

\* A promotion of either kind was made at a doubly skewed node that has a
\* parent, and made the subtree shallower.
C24_Witness ==
    /\ last.op = "promote"
    /\ frame.growth = -1
    /\ heap[1].parent[last.ret] # NULL
    /\ heap[1].skew[last.ret] = SAVL_EVEN
    /\ heap[1].skew[last.node] = SAVL_EVEN
    /\ Cardinality(SubtreeOf(heap[1], last.ret)) >= 5

\* The parent, left, right and skew of node n are the same in h and g.
Untouched(h, g, n) ==
    /\ g.parent[n] = h.parent[n]
    /\ g.left[n] = h.left[n]
    /\ g.right[n] = h.right[n]
    /\ g.skew[n] = h.skew[n]

\* What one promotion of NR over OR changes from h to g, and nothing else:
\* inner(x) is the link on NR's side that faces OR, outer(x) the other one.
PromotedFrame(h, g, OR, NR, M, P, dir) ==
    /\ g.root = (IF P = NULL THEN NR ELSE h.root)
    /\ g.parent[NR] = P /\ g.parent[OR] = NR
    /\ IF dir = SAVL_LEFT
       THEN /\ g.right[NR] = OR /\ g.left[NR] = h.left[NR]
            /\ g.left[OR] = M /\ g.right[OR] = h.right[OR]
       ELSE /\ g.left[NR] = OR /\ g.right[NR] = h.right[NR]
            /\ g.right[OR] = M /\ g.left[OR] = h.left[OR]
    /\ M # NULL =>
           /\ g.parent[M] = OR
           /\ g.left[M] = h.left[M] /\ g.right[M] = h.right[M]
           /\ g.skew[M] = h.skew[M]
    /\ P # NULL =>
           /\ g.parent[P] = h.parent[P] /\ g.skew[P] = h.skew[P]
           /\ g.left[P] = (IF h.left[P] = OR THEN NR ELSE h.left[P])
           /\ g.right[P] = (IF h.right[P] = OR THEN NR ELSE h.right[P])
    /\ \A n \in DOMAIN h.parent : n \notin {OR, NR, M, P} => Untouched(h, g, n)

\* C25: one promotion keeps the in-order sequence and changes only the slot
\* of the subtree, NR's parent and inner child link, OR's parent and its link
\* to NR, the parent of the middle subtree's root when there is one, and the
\* skews of OR and NR; every other field of every node is as before.
C25_PromoteFrame ==
    [][last'.op = "promote" =>
           /\ InOrder(heap'[1]) = InOrder(heap[1])
           /\ PromotedFrame(heap[1], heap'[1], last'.node, last'.ret,
                            IF last'.side = SAVL_LEFT
                            THEN heap[1].right[last'.ret]
                            ELSE heap[1].left[last'.ret],
                            heap[1].parent[last'.node], last'.side)]_vars

\* A promotion was made below a parent, over a middle subtree, in a tree
\* that has nodes outside the rotated pair and its three subtrees' roots.
C25_Witness ==
    /\ last.op = "promote" /\ last.side = SAVL_RIGHT
    /\ heap[1].parent[last.ret] # NULL
    /\ heap[1].right[last.node] # NULL
    /\ heap[1].left[last.node] # NULL
    /\ Cardinality(Attached(heap[1])) = NumKeys

\* The node that comes d places after n in the in-order sequence of h
\* (before it when d is negative), NULL when there is none.
Neighbour(h, n, d) ==
    LET seq == InOrder(h)
        i == CHOOSE j \in 1..Len(seq) : seq[j] = n
    IN  IF i + d \in 1..Len(seq) THEN seq[i + d] ELSE NULL

\* Node repl stands in g where node stood in h: in its parent's slot, with
\* its skew and with its children, near being the child of node on the side
\* repl came from and far the other one.  The one child repl could have
\* (child) is in repl's old slot, which is node's near link when repl was
\* node's own child.
TakesPlace(h, g, node, repl, near, far, child) ==
    /\ g.parent[repl] = h.parent[node]
    /\ IF h.parent[node] = NULL THEN g.root = repl
       ELSE /\ g.root = h.root
            /\ h.left[h.parent[node]] = node => g.left[h.parent[node]] = repl
            /\ h.right[h.parent[node]] = node => g.right[h.parent[node]] = repl
    /\ g.skew[repl] = h.skew[node]
    /\ {g.left[repl], g.right[repl]} = {IF near = repl THEN child ELSE near, far}
    /\ g.parent[far] = repl
    /\ IF near = repl
       THEN child # NULL => g.parent[child] = repl
       ELSE /\ g.parent[near] = repl
            /\ child \in {g.left[h.parent[repl]], g.right[h.parent[repl]]}
            /\ repl \notin {g.left[h.parent[repl]], g.right[h.parent[repl]]}
            /\ child # NULL => g.parent[child] = h.parent[repl]

\* C26: when savl_remove takes out a node with two children, the node that
\* takes its place is its in-order predecessor (the rightmost node of its
\* left subtree) if its skew is -1 and its in-order successor (the leftmost
\* node of its right subtree) if its skew is 1; the replacement gets the
\* node's parent slot and both its children, and the one child the
\* replacement could have moves up into the replacement's old slot.
C26_ComplexReplacement ==
    [][(/\ frame.pc = "idle" /\ frame'.op = "remove" /\ frame'.pc # "idle"
        /\ heap[1].left[frame'.target] # NULL
        /\ heap[1].right[frame'.target] # NULL
        /\ heap[1].skew[frame'.target] # SAVL_EVEN) =>
           IF heap[1].skew[frame'.target] = SAVL_LEFT
           THEN LET repl == Neighbour(heap[1], frame'.target, -1)
                IN  /\ repl \in SubtreeOf(heap[1], heap[1].left[frame'.target])
                    /\ heap[1].right[repl] = NULL
                    /\ TakesPlace(heap[1], heap'[1], frame'.target, repl,
                                  heap[1].left[frame'.target],
                                  heap[1].right[frame'.target],
                                  heap[1].left[repl])
                    /\ heap'[1].right[repl] = heap[1].right[frame'.target]
           ELSE LET repl == Neighbour(heap[1], frame'.target, 1)
                IN  /\ repl \in SubtreeOf(heap[1], heap[1].right[frame'.target])
                    /\ heap[1].left[repl] = NULL
                    /\ TakesPlace(heap[1], heap'[1], frame'.target, repl,
                                  heap[1].right[frame'.target],
                                  heap[1].left[frame'.target],
                                  heap[1].right[repl])
                    /\ heap'[1].left[repl] = heap[1].left[frame'.target]]_vars

\* A node with two children and skew -1 was taken out below a parent, and
\* its predecessor, which was not its own child and had a child, stands in
\* its place.
C26_Witness ==
    /\ frame.op = "remove" /\ frame.pc = "del_loop" /\ frame.rots = 0
    /\ frame.node # NULL
    /\ heap[1].left[frame.target] # NULL /\ heap[1].right[frame.target] # NULL
    /\ heap[1].skew[frame.target] = SAVL_LEFT
    /\ heap[1].parent[frame.target] # NULL
    /\ LET repl == CHOOSE r \in Attached(heap[1]) :
                       heap[1].right[r] = heap[1].right[frame.target]
       IN  /\ heap[1].left[repl] = heap[1].left[frame.target]
           /\ frame.node # repl
           /\ heap[1].right[frame.node] # NULL

\* ---------------------------------------------------------- searching

\* A program calls savl_search on its tree, as savl_add and savl_remove do.
Search ==
    /\ Alive
    /\ \E t \in trees :
         \E key \in {KeyOf(r) : r \in Pool(t)} :
           last' = [NoCall EXCEPT
                        !.op = "search", !.tree = t, !.key = key,
                        !.ret = savl_search(heap[t], heap[t].root, key).result,
                        !.side = savl_search(heap[t], heap[t].root, key).which,
                        !.empty = heap[t].root = NULL]
    /\ UNCHANGED <<heap, which_repl, crashed, ties, tieSide, trees, scenario,
                   frame>>

NextSearch ==
    \/ TryAdd
    \/ Remove
    \/ Search

SpecSearch == Init /\ [][NextSearch]_vars

\* Tree h with the unattached record x hung on p as its child on side s.
Hung(h, p, s, x) ==
    IF s = SAVL_LEFT
    THEN [h EXCEPT !.left[p] = x, !.parent[x] = p, !.left[x] = NULL,
                   !.right[x] = NULL]
    ELSE [h EXCEPT !.right[p] = x, !.parent[x] = p, !.left[x] = NULL,
                   !.right[x] = NULL]

\* C27: savl_search returns a node and 0, the node being the attached node
\* of equal key, exactly when the key is in the tree; for a key that is not
\* in a tree that has nodes it returns a node p and a side, left or right,
\* such that p has no child on that side and a node of that key hung there
\* keeps the tree a search tree; on an empty tree it returns no node and 0.
C27_SearchResult ==
    last.op = "search" =>
        LET h == heap[last.tree]
            present == \E n \in Attached(h) : KeyOf(n) = last.key
        IN  /\ present <=> (last.side = SAVL_EVEN /\ last.ret # NULL)
            /\ present => (last.ret \in Attached(h)
                           /\ KeyOf(last.ret) = last.key)
            /\ h.root = NULL => (last.ret = NULL /\ last.side = SAVL_EVEN)
            /\ (~present /\ h.root # NULL) =>
                   /\ last.ret \in Attached(h)
                   /\ last.side \in {SAVL_LEFT, SAVL_RIGHT}
                   /\ (IF last.side = SAVL_LEFT THEN h.left[last.ret]
                       ELSE h.right[last.ret]) = NULL
                   /\ IsSearchTree(Hung(h, last.ret, last.side, last.key))
                   /\ Attached(Hung(h, last.ret, last.side, last.key))
                          = Attached(h) \cup {last.key}

\* A key that lies between the keys of a tree of depth 3 was searched for
\* and is not there.
C27_Witness ==
    /\ last.op = "search" /\ last.side = SAVL_RIGHT
    /\ heap[1].parent[last.ret] # NULL
    /\ heap[1].parent[last.ret] # heap[1].root
    /\ \E n \in Attached(heap[1]) : KeyOf(n) > last.key

\* ------------------------------------------------- beside a set of keys

\* The program keeps, beside its tree, the set of keys it holds
\* (scenario.batch): savl_add puts the key in, savl_remove and
\* savl_remove_node take it out.
SetAdd ==
    /\ Alive
    /\ \E new \in ReusePool, replace \in BOOLEAN :
           /\ AddCall(1, new, replace,
                      savl_add(heap[1], KeyOf(new), new, replace))
           /\ scenario' = [scenario EXCEPT !.batch = @ \cup {KeyOf(new)}]

SetRemove ==
    /\ Alive
    /\ \E key \in {KeyOf(r) : r \in ReusePool} :
           /\ RemoveCall(1, key)
           /\ scenario' = [scenario EXCEPT !.batch = @ \ {key}]

SetRemoveNode ==
    /\ Alive
    /\ \E node \in ReusePool :
           /\ RemoveNodeCall(1, node)
           /\ scenario' = [scenario EXCEPT !.batch = @ \ {KeyOf(node)}]

NextSet ==
    \/ SetAdd
    \/ SetRemove
    \/ SetRemoveNode

SpecSet == Init /\ [][NextSet]_vars

\* The keys of the nodes that can be reached from the root of tree h.
KeysOf(h) == {KeyOf(n) : n \in Attached(h)}

\* C30: run beside a set S of keys, where adding a key that is not in S puts
\* it in, removing a key that is in S takes it out and nothing else changes
\* S, the tree holds after every call exactly the keys of S; savl_add
\* returns a node exactly when the key was in S already, and savl_remove
\* returns a node exactly when the key was in S.
C30_RefinesSet ==
    [][/\ KeysOf(heap[1]) = scenario.batch
       /\ KeysOf(heap'[1]) = scenario'.batch
       /\ last'.op = "add" =>
              ((last'.ret # NULL) <=> (last'.key \in scenario.batch))
       /\ last'.op = "remove" =>
              /\ (last'.ret # NULL) <=> (last'.key \in scenario.batch)
              /\ last'.ret # NULL => KeyOf(last'.ret) = last'.key]_vars

\* A key that the set holds was added once more with replacement, and the
\* node it displaced came back.
C30_Witness ==
    /\ last.op = "add" /\ last.replace /\ last.ret # NULL
    /\ last.key \in scenario.batch
    /\ Cardinality(scenario.batch) >= 4
    /\ KeysOf(heap[1]) = scenario.batch

\* ------------------------------------------------------------ termination

\* How many ancestors node n has in tree h; -1 for no node.
LevelOf(h, n) ==
    IF n = NULL THEN -1 ELSE Cardinality(AncestorsOf(h, n, DeepKeys + 1))

\* The search descent goes one level down with every pass it repeats.
SearchDescends ==
    frame.pc = "search" /\ frame'.pc = "search" =>
        /\ frame'.node # NULL
        /\ LevelOf(heap[1], frame'.node) = LevelOf(heap[1], frame.node) + 1

\* The loops of the walks go one level down or one level up with every
\* pass; the node the caller gets is the in-order neighbour of the node
\* it held before, the first one the end of the sequence; and the walk is
\* over when the node it held has no neighbour.
WalkAdvances ==
    /\ frame.pc = "walk_down" /\ frame'.pc = "walk_down" =>
           LevelOf(heap[1], frame'.node) = LevelOf(heap[1], frame.node) + 1
    /\ frame.pc = "walk_up" /\ frame'.pc = "walk_up" =>
           LevelOf(heap[1], frame'.node) = LevelOf(heap[1], frame.node) - 1
    /\ frame.pc \in {"walk_down", "walk_up"} /\ frame'.pc = "walk_at" =>
           IF frame.target = NULL
           THEN Neighbour(heap[1], frame'.node, - frame.which_child) = NULL
           ELSE frame'.node
                    = Neighbour(heap[1], frame.target, frame.which_child)
    /\ frame.pc = "walk_up" /\ frame'.pc = "idle" =>
           Neighbour(heap[1], frame.target, frame.which_child) = NULL

\* A pass of a rebalancing loop that does not return goes on one level
\* higher, at the parent; the steps of a rotation stay at their level.
RebalanceAscends ==
    /\ frame.pc \in {"add_loop", "del_loop", "del_outer"}
           /\ frame'.pc \in {"add_loop", "del_loop"} =>
           /\ frame.node # NULL
           /\ LevelOf(heap'[1], frame'.node)
                  = LevelOf(heap[1], frame.node) - 1
           /\ frame.pc # "del_outer" => frame'.node = heap[1].parent[frame.node]
           /\ frame.pc = "del_outer" =>
                  frame'.node = heap'[1].parent[heap'[1].parent[frame.node]]
    /\ frame.pc \in {"add_loop", "del_loop", "add_inner", "del_inner"}
           /\ frame'.pc \in {"add_inner", "del_inner", "add_outer", "del_outer"} =>
           /\ frame'.node = frame.node
           /\ LevelOf(heap'[1], frame'.node) = LevelOf(heap[1], frame.node)

\* A pass of the loop of savl_free goes one level down or hands a node
\* without children to freefn, which leaves the tree one node smaller;
\* the loop ends with the tree empty.
FreeConsumes ==
    /\ frame.pc = "free" /\ frame'.pc = "free" =>
           IF frame'.target = frame.target
           THEN LevelOf(heap[1], frame'.node)
                    = LevelOf(heap[1], frame.node) + 1
           ELSE /\ frame'.target = frame.node
                /\ frame.node \in Attached(heap[1])
                /\ Attached(heap'[1]) = Attached(heap[1]) \ {frame.node}
    /\ frame.pc = "free" /\ frame'.pc = "idle" =>
           /\ heap[1].root = NULL
           /\ frame.target # NULL
           /\ heap[1].parent[frame.target] = NULL

\* C29: on a valid tree every call ends.  The descent of savl_search and
\* the loops of savl_first, savl_last, savl_next and savl_prev come to no
\* node twice; every pass of a rebalancing loop returns or goes on at the
\* parent, so the loop is over at the root at the latest; and savl_free
\* ends once it has handed every node to freefn.
C29_Terminates ==
    /\ (frame.pc # "idle") ~> (frame.pc = "idle")
    /\ [][SearchDescends /\ WalkAdvances /\ RebalanceAscends
                         /\ FreeConsumes]_vars

\* savl_free has ended on a tree of twelve nodes, the last node it handed
\* to freefn being the root.
C29_Witness ==
    /\ frame.pc = "idle" /\ frame.op = "free"
    /\ scenario.phase = "deep"
    /\ frame.target = RecOfKey(8)
    /\ heap[1].root = NULL

\* ----------------------------------------------------------- after freefn

\* The nodes savl_free has handed to freefn in the call that is running.
Destroyed == {last.calls[i] : i \in 1..Len(last.calls)}

\* The four fields of node n in tree h.
FieldsOf(h, n) == <<h.parent[n], h.left[n], h.right[n], h.skew[n]>>

\* C31: in savl_free a node goes to freefn only when it has no children
\* and once the link of its parent to it, or the root, is NULL; the loop
\* goes on at the parent the node had before freefn ran; and a node that
\* went to freefn is not the loop's node again, is not the parent the loop
\* writes to, and keeps the fields freefn left it with.
C31_FreeNeverTouchesFreed ==
    [][frame.pc = "free" =>
           /\ last'.calls # last.calls =>
                  /\ last'.calls = Append(last.calls, frame.node)
                  /\ heap[1].left[frame.node] = NULL
                  /\ heap[1].right[frame.node] = NULL
                  /\ Unreferenced(heap'[1], frame.node)
                  /\ frame'.node = heap[1].parent[frame.node]
           /\ \A n \in Destroyed :
                  /\ frame.node # n
                  /\ frame.node # NULL => heap[1].parent[frame.node] # n
                  /\ FieldsOf(heap'[1], n) = FieldsOf(heap[1], n)
                  /\ n \notin Attached(heap[1])]_vars

\* savl_free has ended on the tree of twelve nodes, each handed to freefn
\* once, the root last and a leaf whose parent had two children first.
C31_Witness ==
    /\ frame.pc = "idle" /\ frame.op = "free"
    /\ scenario.phase = "deep"
    /\ Len(last.calls) = DeepKeys
    /\ Cardinality(Destroyed) = DeepKeys
    /\ last.calls[DeepKeys] = RecOfKey(8)
    /\ last.calls[1] = RecOfKey(1)

\* ------------------------------------------------------------- assertions

\* The call stands where savl_which_child may be called on its node next.
AtWhichChild ==
    /\ frame.pc \in {"add_loop", "del_loop", "walk_up", "free"}
    /\ frame.node # NULL

\* The step is the start of an addition that hangs its node on a parent
\* (and puts it in no other node's place).
Attaches ==
    /\ frame.pc = "idle"
    /\ frame'.op \in {"add", "force_add"}
    /\ frame'.target \notin Attached(heap[1])
    /\ Attached(heap'[1]) = Attached(heap[1]) \cup {frame'.target}
    /\ heap'[1].parent[frame'.target] \in Attached(heap[1])

\* C32: with a comparison function that is a total order and nodes that are
\* added only while they are not in the tree, no assert of the library
\* fails in savl_try_add, savl_force_add, savl_remove, savl_remove_node,
\* the savl_next and savl_prev loops and savl_free: a node savl_which_child
\* is called on that has a parent and is not its left child is its right
\* child, and the side of the parent an addition hangs its node on is NULL
\* before.
C32_AssertsHold ==
    /\ [](~heap[1].failed /\ ~crashed)
    /\ [](AtWhichChild /\ heap[1].parent[frame.node] # NULL
             /\ heap[1].left[heap[1].parent[frame.node]] # frame.node =>
                 heap[1].right[heap[1].parent[frame.node]] = frame.node)
    /\ [][Attaches =>
             IF KeyOf(frame'.target) < KeyOf(heap'[1].parent[frame'.target])
             THEN heap[1].left[heap'[1].parent[frame'.target]] = NULL
             ELSE heap[1].right[heap'[1].parent[frame'.target]] = NULL]_vars

\* savl_remove_node has taken a node out of the tree of twelve nodes and
\* rebalanced at three levels, calling savl_which_child at each.
C32_Witness ==
    /\ frame.pc = "idle" /\ frame.op = "remove_node"
    /\ scenario.phase = "deep"
    /\ frame.promos = 3
    /\ ~heap[1].failed

\* ------------------------------------------------- two trees, one record

\* C33: with two nodes in every record, one for each tree, a call on one
\* tree reads and writes the root and the node fields of that tree and
\* nothing else: the root and the parent, left, right and skew of every
\* node of the other tree stay as they are, and so does whatever else the
\* library keeps (the static which_repl of savl_del_complex).
C33_OnlyOwnTree ==
    [][/\ \A u \in Tree \ {last'.tree} : heap'[u] = heap[u]
       /\ which_repl' = which_repl]_vars

\* ------------------------------------------------------ the refused node

\* The last call was an addition without replacement that found its key
\* in the tree and returned the node that has it.
Refused ==
    /\ last.op = "add" /\ ~last.replace
    /\ last.ret # NULL

\* C34: when savl_try_add finds a node of equal key, the node it refuses
\* has been written all the same: its left and right are NULL, its skew is
\* 0, and its parent is the node of equal key that is in the tree (not
\* NULL); the refused node is not in the tree and no node of the tree
\* refers to it.
C34_RefusedNodeWritten ==
    Refused =>
        /\ heap[last.tree].left[last.node] = NULL
        /\ heap[last.tree].right[last.node] = NULL
        /\ heap[last.tree].skew[last.node] = SAVL_EVEN
        /\ heap[last.tree].parent[last.node] = last.ret
        /\ last.ret # last.node
        /\ last.ret \in Attached(heap[last.tree])
        /\ KeyOf(last.ret) = last.key
        /\ last.node \notin Attached(heap[last.tree])
        /\ Unreferenced(heap[last.tree], last.node)

\* savl_try_add has refused a node while the record that repeats its key
\* is in a tree of four nodes or more, below the root: that record is now
\* the parent of the refused node.
C34_Witness ==
    /\ Refused
    /\ last.node <= NumKeys
    /\ heap[last.tree].parent[last.node] = MaxRec
    /\ heap[last.tree].parent[last.ret] # NULL
    /\ Cardinality(Attached(heap[last.tree])) >= 4

\* ---------------------------------------------------- the displaced node

\* The step is a savl_force_add (or savl_add with replacement) that returns
\* the node it has put its new node in the place of.
Displaces == last'.op = "add" /\ last'.replace /\ last'.ret # NULL

\* The nodes that node n of tree h refers to.
LinksOf(h, n) == {h.parent[n], h.left[n], h.right[n]} \ {NULL}

\* C35: the node savl_force_add returns for a key that was in the tree can
\* no longer be reached from the root, and no node of the tree has it as
\* parent, left or right; but its own parent, left, right and skew are
\* what they were before the call, not cleared as those of a removed node
\* are: what they refer to is still in the tree.
C35_DisplacedKeepsFields ==
    [][Displaces =>
           /\ last'.ret \in Attached(heap[last'.tree])
           /\ last'.ret \notin Attached(heap'[last'.tree])
           /\ Unreferenced(heap'[last'.tree], last'.ret)
           /\ FieldsOf(heap'[last'.tree], last'.ret)
                  = FieldsOf(heap[last'.tree], last'.ret)
           /\ LinksOf(heap'[last'.tree], last'.ret)
                  \subseteq Attached(heap'[last'.tree])]_vars

\* savl_force_add has returned a node that keeps two links and a skew that
\* is not 0, none of them cleared.
C35_Witness ==
    /\ last.op = "add" /\ last.replace /\ last.ret # NULL
    /\ Cardinality(LinksOf(heap[last.tree], last.ret)) = 2
    /\ heap[last.tree].skew[last.ret] # SAVL_EVEN
    /\ ~Cleared(heap[last.tree], last.ret)
    /\ last.ret \notin Attached(heap[last.tree])

====
